---- MODULE Spec2Model ----
(***************************************************************************)
(* A model of the tBot2026 dashboard front end.                            *)
(*                                                                         *)
(*  - Portfolio page (src/frontend/app/portfolio/page.tsx):                *)
(*    fetchPriceHistory aligns the trades of a portfolio with the price    *)
(*    series returned by the history endpoint (SpecAlign).                 *)
(*  - InteractiveChart (src/frontend/components/InteractiveChart.tsx and   *)
(*    the inline copy in src/frontend/app/page.tsx): index/price to        *)
(*    drawing-space mapping and the hovered index (SpecChart).             *)
(*  - Portfolio page, loading portfolios and charts (SpecPortfolio), and   *)
(*    the price-history cache of usePriceHistory (SpecCache).              *)
(*  - Trading page (src/frontend/app/trading/page.tsx): the active bots    *)
(*    and their copy in sessionStorage (SpecTrading).                      *)
(*  - useStocks (src/frontend/hooks/useStocks.ts): stock fetches and the   *)
(*    auto-refresh timer (SpecStocks).                                     *)
(*  - useNotifications (src/unnamed/part_001): alerts (SpecNotify).        *)
(*  - api-config (src/unnamed/part_003): the base URL (SpecConfig).        *)
(*                                                                         *)
(* Times are milliseconds counted from the start (UTC) of the first day    *)
(* of a short window; date strings are the labels of ParseTable.  The code *)
(* only subtracts instants and truncates them to local midnight, so the    *)
(* origin of the window does not matter.                                   *)
(***************************************************************************)
EXTENDS Integers, Sequences, FiniteSets, TLC

VARIABLES
    \* ---- portfolio page ----
    tz,            \* time zone of the browser (environment)
    trades,        \* the `trades` argument of fetchPriceHistory
    pc,            \* position of fetchPriceHistory
    response,      \* what the history endpoint answered (set when it answers)
    priceHistory,  \* useState<any[]>([])
    loadingChart,  \* useState(false)
    returned,      \* what the call of fetchPriceHistory resolved to
    logged,        \* what fetchPriceHistory wrote with console.error
    \* ---- InteractiveChart ----
    impl,          \* which copy of the chart: "component" or "page"
    history,       \* the history prop: sequence of close prices
    hoveredIndex,  \* useState<number | null>(null)
    pointer,       \* the last pointer input handled: none or [x, w]
    event,         \* the last event the chart went through
    \* ---- portfolio page: loading portfolios and charts ----
    portfolio,      \* useState<Portfolio | null>(null)
    chartSymbol,    \* useState('')
    showChartInput, \* useState(false)
    loading,        \* useState(false)
    error,          \* useState<string | null>(null)
    portfolioCall,  \* position of the fetchPortfolio in flight
    chartCalls,     \* the calls of fetchPriceHistory awaiting the endpoint
    shownPage,      \* the state as of the latest render of the page, which
                    \* the inputs on the screen and their handlers hold
    \* ---- usePriceHistory ----
    priceHistoryByKey, \* useState<Record<string, PriceHistoryItem[]>>({})
    loadingSymbol,     \* useState<string | null>(null)
    renderedHistory,   \* the priceHistory of the latest render, which the
                       \* fetchPriceHistory the callers hold closes over
    fetches,           \* the calls of fetchPriceHistory awaiting the endpoint
    \* ---- trading page ----
    activeBots,     \* useState<ActiveBot[]>([])
    storedBots,     \* the sessionStorage entry 'activeBots'
    tradingLoading, \* useState(false), the `loading` of the trading page
    tradingMessage, \* useState<{type, text} | null>(null)
    messageTimers,  \* the pending setTimeout(() => setMessage(null), 5000)
    loads,          \* the calls of loadAndVerifyBots in flight
    finished,       \* how the latest loadAndVerifyBots to finish went
    start,          \* the startBot awaiting the backend
    stops,          \* the calls of stopBot awaiting the backend
    stoppedOk,      \* the bots whose stop request the backend accepted
    shownTrading,   \* the state as of the latest render of the page, which
                    \* the buttons on the screen and their handlers hold
    \* ---- useStocks ----
    stocks,            \* useState<Stock[]>([])
    stocksLoading,     \* useState(true), the `loading` of the hook
    stocksError,       \* useState<string | null>(null)
    lastUpdate,        \* useState<Date | null>(null)
    currentTimeframe,  \* useState<Timeframe>('1h'), the `timeframe` of the hook
    isAutoRefreshing,  \* useState(false)
    fetchedRef,        \* useRef(false)
    intervalRef,       \* useRef<NodeJS.Timeout | null>(null)
    intervals,         \* the interval timers that are running
    stockFetches,      \* the calls of fetchTopStocks awaiting the backend
    stockFailed,       \* whether a call of fetchTopStocks has failed
    \* ---- useNotifications ----
    notificationsEnabled,   \* useState(false)
    notificationPermission, \* useState<NotificationPermission>('default')
    browserPermission,      \* Notification.permission (environment)
    notifyStored,           \* the localStorage entry 'notificationsEnabled'
    previousStocksRef,      \* useRef<Record<string, {trend, score, sentiment}>>({})
    enabledSeen,            \* notificationsEnabled as checkAlertConditions holds it
    sent,                   \* the symbols the latest check passed to sendNotification
    pending,                \* the notifications that wait for the service worker
    shown,                  \* the symbols whose notification is on the screen
    \* ---- api-config ----
    hasWindow,   \* typeof window !== 'undefined' (environment)
    envUrl,      \* process.env.NEXT_PUBLIC_API_URL (environment)
    storedUrl,   \* the localStorage entry 'API_BASE_URL'
    baseUrl,     \* apiConfig.baseUrl
    requested    \* what the latest call of endpoint returned

alignVars ==
    <<tz, trades, pc, response, priceHistory, loadingChart, returned, logged>>
chartVars == <<impl, history, hoveredIndex, pointer, event>>
pageVars ==
    <<portfolio, chartSymbol, showChartInput, loading, error, portfolioCall,
      chartCalls, shownPage>>
cacheVars ==
    <<priceHistoryByKey, renderedHistory, loadingSymbol, fetches>>
tradingVars ==
    <<activeBots, storedBots, tradingLoading, tradingMessage, messageTimers,
      loads, finished, start, stops, stoppedOk, shownTrading>>
stocksVars ==
    <<stocks, stocksLoading, stocksError, lastUpdate, currentTimeframe,
      isAutoRefreshing, fetchedRef, intervalRef, intervals, stockFetches,
      stockFailed>>
notifyVars ==
    <<notificationsEnabled, notificationPermission, browserPermission,
      notifyStored, previousStocksRef, enabledSeen, sent, pending, shown>>
configVars == <<hasWindow, envUrl, storedUrl, baseUrl, requested>>
vars ==
    <<alignVars, chartVars, pageVars, cacheVars, tradingVars, stocksVars,
      notifyVars, configVars>>

----------------------------------------------------------------------------
(* Bounds of the model *)

MaxTrades == 2
MaxPrices == 2

(* Program constants *)

MsPerDay == 86400000
MsPerHour == 60 * 60 * 1000

----------------------------------------------------------------------------
(* JavaScript numbers that may be NaN *)

NaN == [nan |-> TRUE, v |-> 0]
Num(n) == [nan |-> FALSE, v |-> n]

Abs(n) == IF n < 0 THEN -n ELSE n

----------------------------------------------------------------------------
(* Dates *)

\* The date strings of the window and the instant each denotes.
ParseTable ==
    [s \in {"D0T10", "D1T10", "D1T23", "D2T10"} |->
        CASE s = "D0T10" -> 10 * MsPerHour
          [] s = "D1T10" -> 34 * MsPerHour
          [] s = "D1T23" -> 47 * MsPerHour
          [] s = "D2T10" -> 58 * MsPerHour]

\* new Date(s).getTime(): NaN for a string Date cannot parse.
DateGetTime(s) == IF s \in DOMAIN ParseTable THEN Num(ParseTable[s]) ELSE NaN

TimeZones == {"UTC", "DST"}

\* The zone "DST" puts its clocks forward by one hour at 02:00 local time of
\* day 1, so that local day 1 lasts 23 hours.
DstAt == 26 * MsPerHour

\* Start of the local calendar day of instant t, as an instant.
LocalMidnight(zone, t) ==
    IF zone = "UTC"
    THEN t - (t % MsPerDay)
    ELSE LET off   == IF t >= DstAt THEN MsPerHour ELSE 0
             local == t + off
             lm    == local - (local % MsPerDay)
         IN  IF lm >= DstAt + MsPerHour THEN lm - MsPerHour ELSE lm

\* Local calendar day of instant t, counted from day 0 of the window.
LocalDay(zone, t) ==
    (t + (IF zone = "DST" /\ t >= DstAt THEN MsPerHour ELSE 0)) \div MsPerDay

\* new Date(s).setHours(0, 0, 0, 0)
SetHoursZero(zone, s) ==
    LET d == DateGetTime(s)
    IN  IF d.nan THEN NaN ELSE Num(LocalMidnight(zone, d.v))

\* new Date(s).toLocaleDateString()
ToLocaleDateString(zone, s) ==
    LET d == DateGetTime(s)
    IN  IF d.nan THEN <<"Invalid Date">> ELSE <<"day", LocalDay(zone, d.v)>>

----------------------------------------------------------------------------
(* Inputs of the portfolio page *)

\* The candle the history endpoint holds for a date string (one per instant).
CloseOf(s) ==
    CASE s = "D0T10" -> 10
      [] s = "D1T10" -> 12
      [] s = "D1T23" -> 8
      [] s = "D2T10" -> 15
      [] OTHER       -> 11

PriceItem(s) ==
    [date |-> s, open |-> CloseOf(s) - 1, high |-> CloseOf(s) + 2,
     low |-> CloseOf(s) - 3, close |-> CloseOf(s), volume |-> 100 * CloseOf(s)]

BucketDates == {"D0T10", "D1T10", "D1T23", "D2T10", "garbage"}
TradeDates  == {"D0T10", "D1T10", "garbage"}

SeqsUpTo(S, n) == UNION {[1..k -> S] : k \in 0..n}

\* The endpoint answers in ascending order of time; an item whose date does
\* not parse may stand anywhere.
Ascending(ds) ==
    \A i, j \in 1..Len(ds) :
        (i < j /\ ds[i] \in DOMAIN ParseTable /\ ds[j] \in DOMAIN ParseTable)
            => ParseTable[ds[i]] < ParseTable[ds[j]]

PriceSeries ==
    {[i \in 1..Len(ds) |-> PriceItem(ds[i])] :
        ds \in {d \in SeqsUpTo(BucketDates, MaxPrices) : Ascending(d)}}

TradeCores ==
    [action : {"BUY", "SELL"}, pq : {<<10, 1>>, <<20, 2>>}, timestamp : TradeDates]

\* Trade ids are unique: the trade at position i of the portfolio has id i.
MkTrade(i, c) ==
    [id |-> i, action |-> c.action, price |-> c.pq[1], quantity |-> c.pq[2],
     timestamp |-> c.timestamp]

TradeLists ==
    {[i \in 1..Len(cs) |-> MkTrade(i, cs[i])] : cs \in SeqsUpTo(TradeCores, MaxTrades)}

----------------------------------------------------------------------------
(* fetchPriceHistory: the alignment of trades with the price series *)

\* The filter predicate of tradesOnDate.
OnDate(zone, trade, item) ==
    LET tradeDate == SetHoursZero(zone, trade.timestamp)
        itemDate  == SetHoursZero(zone, item.date)
    IN  /\ ~tradeDate.nan
        /\ ~itemDate.nan
        /\ Abs(tradeDate.v - itemDate.v) < MsPerDay

TradesOnDate(zone, ts, item) == SelectSeq(ts, LAMBDA trade : OnDate(zone, trade, item))

\* A forEach body that keeps an annotation already written.
AnnotateKeepFirst(dataPoint, trade) ==
    IF trade.action = "BUY"
    THEN dataPoint @@ [buyPrice |-> trade.price, buyQuantity |-> trade.quantity]
    ELSE dataPoint @@ [sellPrice |-> trade.price, sellQuantity |-> trade.quantity]

\* The body of tradesOnDate.forEach.
Annotate(dataPoint, trade) ==
    IF trade.action = "BUY"
    THEN [buyPrice |-> trade.price, buyQuantity |-> trade.quantity] @@ dataPoint
    ELSE [sellPrice |-> trade.price, sellQuantity |-> trade.quantity] @@ dataPoint

\* A forEach that stops after the first trade of the day.
ForEachFirstOnly(dataPoint, ts) ==
    IF ts = <<>> THEN dataPoint ELSE Annotate(dataPoint, Head(ts))

RECURSIVE ForEach(_, _)
ForEach(dataPoint, ts) ==
    IF ts = <<>> THEN dataPoint
    ELSE ForEach(Annotate(dataPoint, Head(ts)), Tail(ts))

\* The point the chart gets for one item, before its trades are written.
BasePoint(zone, item) ==
    [date      |-> ToLocaleDateString(zone, item.date),
     timestamp |-> DateGetTime(item.date),
     price     |-> item.close]

DataPoint(zone, ts, item) ==
    ForEach(BasePoint(zone, item), TradesOnDate(zone, ts, item))

\* chartData = data.map(...)
Align(zone, data, ts) == [i \in 1..Len(data) |-> DataPoint(zone, ts, data[i])]

HasBuy(dp)  == "buyPrice" \in DOMAIN dp
HasSell(dp) == "sellPrice" \in DOMAIN dp

----------------------------------------------------------------------------
(* The portfolio page as a state machine *)

NoResponse == [kind |-> "none"]

\* fetchPriceHistory is async (...) => void: every path resolves to undefined.
Pending   == [pending |-> TRUE]
Undefined == [undefined |-> TRUE]

AlignInit ==
    /\ tz \in TimeZones
    /\ trades \in TradeLists
    /\ pc = "idle"
    /\ response = NoResponse
    /\ priceHistory = <<>>
    /\ loadingChart = FALSE
    /\ returned = Pending
    /\ logged = "nothing"

\* fetchPriceHistory up to its first await.
CallFetchPriceHistory ==
    /\ pc = "idle"
    /\ loadingChart' = TRUE
    /\ pc' = "fetching"
    /\ UNCHANGED <<tz, trades, response, priceHistory, returned, logged>>
    /\ UNCHANGED <<chartVars, pageVars, cacheVars, tradingVars, stocksVars,
                   notifyVars, configVars>>

\* data.map(...) raises a TypeError when the body is no array.  The callback
\* itself raises nothing on items and trades of the shapes of Trade and of
\* the history endpoint.
MapThrows(isArray, data) == ~isArray

\* The endpoint answers ok with a JSON body: the rest of the handler.
HistoryOk(isArray, data) ==
    /\ pc = "fetching"
    /\ response' = [kind |-> "ok", isArray |-> isArray, data |-> data]
    /\ IF MapThrows(isArray, data)
       THEN /\ logged' = "Error fetching price history:"
            /\ UNCHANGED priceHistory
       ELSE /\ priceHistory' = Align(tz, data, trades)
            /\ UNCHANGED logged
    /\ loadingChart' = FALSE
    /\ returned' = Undefined
    /\ pc' = "done"
    /\ UNCHANGED <<tz, trades>>
    /\ UNCHANGED <<chartVars, pageVars, cacheVars, tradingVars, stocksVars,
                   notifyVars, configVars>>

\* response.ok is false: console.error and return; finally runs.
HistoryNotOk ==
    /\ pc = "fetching"
    /\ response' = [kind |-> "notok"]
    /\ logged' = "Failed to fetch price history"
    /\ loadingChart' = FALSE
    /\ returned' = Undefined
    /\ pc' = "done"
    /\ UNCHANGED <<tz, trades, priceHistory>>
    /\ UNCHANGED <<chartVars, pageVars, cacheVars, tradingVars, stocksVars,
                   notifyVars, configVars>>

\* fetch or response.json() rejects: the catch block logs; finally runs.
HistoryThrows ==
    /\ pc = "fetching"
    /\ response' = [kind |-> "threw"]
    /\ logged' = "Error fetching price history:"
    /\ loadingChart' = FALSE
    /\ returned' = Undefined
    /\ pc' = "done"
    /\ UNCHANGED <<tz, trades, priceHistory>>
    /\ UNCHANGED <<chartVars, pageVars, cacheVars, tradingVars, stocksVars,
                   notifyVars, configVars>>

AlignNext ==
    \/ CallFetchPriceHistory
    \/ \E data \in PriceSeries : HistoryOk(TRUE, data)
    \/ HistoryOk(FALSE, <<>>)
    \/ HistoryNotOk
    \/ HistoryThrows


----------------------------------------------------------------------------
(* JavaScript arithmetic on exact fractions.  A number is num/den with      *)
(* den >= 0; den = 0 stands for NaN (num = 0) and for the infinities, as    *)
(* a division by zero produces them.                                        *)

R(n, d) == [num |-> n, den |-> d]
Int2R(n) == R(n, 1)
IsNaN(a) == a.den = 0 /\ a.num = 0
IsFinite(a) == a.den > 0

\* a / b
RDiv(a, b) ==
    IF b.num < 0
    THEN R(-(a.num * b.den), -(a.den * b.num))
    ELSE R(a.num * b.den, a.den * b.num)

\* a * b
RMul(a, b) == R(a.num * b.num, a.den * b.den)

Sign(n) == IF n > 0 THEN 1 ELSE IF n < 0 THEN -1 ELSE 0

\* a - b and a + b (an infinity absorbs a finite number, Infinity - Infinity
\* is NaN, Infinity - -Infinity is Infinity; NaN stays NaN)
RSub(a, b) ==
    IF IsFinite(a) /\ IsFinite(b)
    THEN R(a.num * b.den - b.num * a.den, a.den * b.den)
    ELSE IF IsFinite(b) THEN a
    ELSE IF IsFinite(a) THEN R(-b.num, 0)
    ELSE IF IsNaN(a) \/ IsNaN(b) \/ Sign(a.num) = Sign(b.num) THEN R(0, 0)
    ELSE a

RAdd(a, b) == RSub(a, R(-b.num, b.den))

\* a < b: false when either is NaN
RLt(a, b) ==
    /\ ~IsNaN(a) /\ ~IsNaN(b)
    /\ IF IsFinite(a) /\ IsFinite(b) THEN a.num * b.den < b.num * a.den
       ELSE IF IsFinite(a) THEN b.num > 0
       ELSE IF IsFinite(b) THEN a.num < 0
       ELSE a.num < 0 /\ b.num > 0

RLe(a, b) ==
    /\ ~IsNaN(a) /\ ~IsNaN(b)
    /\ ~RLt(b, a)

\* Math.round: the nearest integer, a tie going up
MathRound(a) ==
    IF IsFinite(a) THEN R((2 * a.num + a.den) \div (2 * a.den), 1)
    ELSE R(Sign(a.num), 0)

\* Math.min and Math.max: NaN when either argument is NaN
MathMin(a, b) == IF IsNaN(a) \/ IsNaN(b) THEN R(0, 0) ELSE IF RLt(b, a) THEN b ELSE a
MathMax(a, b) == IF IsNaN(a) \/ IsNaN(b) THEN R(0, 0) ELSE IF RLt(a, b) THEN b ELSE a

----------------------------------------------------------------------------
(* InteractiveChart: geometry.  impl = "component" is                       *)
(* components/InteractiveChart.tsx, impl = "page" the copy in app/page.tsx. *)

Impls == {"component", "page"}

ViewBoxWidth == 700
ViewBoxHeight == 250

MarginLeft(im)  == IF im = "component" THEN 60 ELSE 70
MarginRight(im) == IF im = "component" THEN 50 ELSE 60

ChartWidth(im) == ViewBoxWidth - MarginLeft(im) - MarginRight(im)

\* getX(i) for a series of n prices
GetX(im, n, i) ==
    RAdd(Int2R(MarginLeft(im)),
         RMul(RDiv(Int2R(i), Int2R(n - 1)), Int2R(ChartWidth(im))))

\* A pointer offset taken in rendered pixels as if they were viewBox units.
ScaledXNoRescale(im, x, svgWidth) == x

\* The component scales the pointer to viewBox coordinates; the copy in
\* the page uses the offset from the left edge as it is.
ScaledX(im, x, svgWidth) ==
    IF im = "component"
    THEN RMul(RDiv(x, svgWidth), Int2R(ViewBoxWidth))
    ELSE x

\* The pointer is outside the plot: left of the left margin or right of
\* the right margin.
OutsidePlot(im, sx) ==
    \/ RLt(sx, Int2R(MarginLeft(im)))
    \/ RLt(Int2R(ViewBoxWidth - MarginRight(im)), sx)

NoIndex == [none |-> TRUE]
Index(r) == [none |-> FALSE, i |-> r]

\* An index taken over prices.length instead of prices.length - 1 and
\* returned without the clamp.
GetIndexUnclamped(im, n, x, svgWidth) ==
    LET scaledX == ScaledX(im, x, svgWidth)
    IN  IF OutsidePlot(im, scaledX) THEN NoIndex
        ELSE LET ratio == RDiv(RSub(scaledX, Int2R(MarginLeft(im))),
                               Int2R(ChartWidth(im)))
             IN  Index(MathRound(RMul(ratio, Int2R(n))))

\* getIndexFromPosition, with x = clientX - rect.left and svgWidth =
\* rect.width; in the page, the body of handleMouseMove.
GetIndexFromPosition(im, n, x, svgWidth) ==
    LET scaledX == ScaledX(im, x, svgWidth)
    IN  IF OutsidePlot(im, scaledX) THEN NoIndex
        ELSE LET ratio == RDiv(RSub(scaledX, Int2R(MarginLeft(im))),
                               Int2R(ChartWidth(im)))
                 index == MathRound(RMul(ratio, Int2R(n - 1)))
             IN  Index(MathMax(Int2R(0), MathMin(Int2R(n - 1), index)))

----------------------------------------------------------------------------
(* InteractiveChart: price axis, trend and ticks (the same in both copies) *)

MarginTop == 20
MarginBottom == 50
ChartHeight == ViewBoxHeight - MarginTop - MarginBottom

\* Math.min(...prices) and Math.max(...prices) of a non-empty series
MinPrice(prices) ==
    CHOOSE p \in {prices[i] : i \in DOMAIN prices} :
        \A i \in DOMAIN prices : p <= prices[i]
MaxPrice(prices) ==
    CHOOSE p \in {prices[i] : i \in DOMAIN prices} :
        \A i \in DOMAIN prices : p >= prices[i]

\* A range taken without the `|| 1`.
PriceRangeUnguarded(prices) == MaxPrice(prices) - MinPrice(prices)

\* range = maxPrice - minPrice || 1
PriceRange(prices) ==
    IF MaxPrice(prices) - MinPrice(prices) = 0 THEN 1
    ELSE MaxPrice(prices) - MinPrice(prices)

\* getY(price)
GetY(prices, price) ==
    RSub(Int2R(MarginTop + ChartHeight),
         RMul(RDiv(Int2R(price - MinPrice(prices)), Int2R(PriceRange(prices))),
              Int2R(ChartHeight)))

\* A trend that is up only on a rise.
IsUpOnRise(prices) == prices[Len(prices)] > prices[1]

\* isUp
IsUp(prices) == prices[Len(prices)] >= prices[1]

\* color
Color(prices) == IF IsUp(prices) THEN "#16a34a" ELSE "#dc2626"

YTicks == 5

\* Array.from({ length: yTicks + 1 }): the indices i of the Y labels
YTickIndices == 0 .. (YTicks + 1) - 1

\* price and y of the Y label i
YTickPrice(prices, i) ==
    RAdd(Int2R(MinPrice(prices)),
         RDiv(Int2R(PriceRange(prices) * i), Int2R(YTicks)))
YTickY(i) ==
    RSub(Int2R(MarginTop + ChartHeight),
         RMul(RDiv(Int2R(i), Int2R(YTicks)), Int2R(ChartHeight)))

\* Math.floor
MathFloor(a) == IF IsFinite(a) THEN R(a.num \div a.den, 1) ELSE a

MaxXTicks == 5

\* xTicks = Math.min(5, dates.length)
XTicks(n) == IF n < MaxXTicks THEN n ELSE MaxXTicks

\* Array.from({ length: xTicks }): the indices i of the X labels
XTickIndices(n) == 0 .. XTicks(n) - 1

\* idx of the X label i of a series of n dates
XTickIdx(n, i) ==
    MathFloor(RMul(RDiv(Int2R(i), Int2R(XTicks(n) - 1)), Int2R(n - 1)))

----------------------------------------------------------------------------
(* InteractiveChart: inputs *)

MaxLen == 4
Grid == 140

Closes == {10, 15}

\* The history prop: the close of each item.
Histories == UNION {[1..k -> Closes] : k \in 0..MaxLen}

\* The svg of the component is as wide as its container; the svg of the
\* page has width={700}.
RenderedWidths(im) == IF im = "component" THEN {350, 700, 1400} ELSE {ViewBoxWidth}

\* Pointer offsets from the left edge of the svg, as fractions k/Grid of
\* its width: around both margins of either copy, at the middle of the
\* plot, inside it, at both edges of the svg and one step off either edge.
PointerSteps ==
    {-1, 0, 11, 12, 13, 14, 15, 40, 71, 100, 127, 128, 129, 130, 131, Grid, Grid + 1}
PointerX(k, w) == R(k * w, Grid)

----------------------------------------------------------------------------
(* InteractiveChart as a state machine *)

\* The crosshair and the tooltip of the component read
\* prices[hoveredIndex] and history[hoveredIndex]: with an index outside
\* the series the render throws a TypeError and no chart is rendered.
RenderThrows ==
    /\ Len(history) > 0
    /\ ~hoveredIndex.none
    /\ ~(hoveredIndex.i.den = 1 /\ hoveredIndex.i.num \in 0 .. Len(history) - 1)

\* The component returns null on an empty history: nothing is rendered and
\* no handler is attached.  Nor is anything after a render that threw.
Rendered == Len(history) > 0 /\ ~RenderThrows

NoPointer == [none |-> TRUE]

ChartInit ==
    /\ impl \in Impls
    /\ history \in Histories
    /\ hoveredIndex = NoIndex
    /\ pointer = NoPointer
    /\ event = "mount"

\* handleMouseMove
MouseMove(k, w) ==
    /\ Rendered
    /\ hoveredIndex' = GetIndexFromPosition(impl, Len(history), PointerX(k, w), Int2R(w))
    /\ pointer' = [none |-> FALSE, k |-> k, w |-> w]
    /\ event' = "mousemove"
    /\ UNCHANGED <<impl, history>>
    /\ UNCHANGED <<alignVars, pageVars, cacheVars, tradingVars, stocksVars,
                   notifyVars, configVars>>

\* handleTouchMove with at least one touch; the page attaches no touch handler
TouchMove(k, w) ==
    /\ Rendered
    /\ impl = "component"
    /\ hoveredIndex' = GetIndexFromPosition(impl, Len(history), PointerX(k, w), Int2R(w))
    /\ pointer' = [none |-> FALSE, k |-> k, w |-> w]
    /\ event' = "touchmove"
    /\ UNCHANGED <<impl, history>>
    /\ UNCHANGED <<alignVars, pageVars, cacheVars, tradingVars, stocksVars,
                   notifyVars, configVars>>

\* A handleTouchMove that clears the hover when e.touches is empty.
TouchMoveNoTouchesClears ==
    /\ Rendered
    /\ impl = "component"
    /\ event' = "touchmove without touches"
    /\ hoveredIndex' = NoIndex
    /\ UNCHANGED <<impl, history, pointer>>
    /\ UNCHANGED <<alignVars, pageVars, cacheVars, tradingVars, stocksVars,
                   notifyVars, configVars>>

\* handleTouchMove with e.touches empty: nothing is set
TouchMoveNoTouches ==
    /\ Rendered
    /\ impl = "component"
    /\ event' = "touchmove without touches"
    /\ UNCHANGED <<impl, history, hoveredIndex, pointer>>
    /\ UNCHANGED <<alignVars, pageVars, cacheVars, tradingVars, stocksVars,
                   notifyVars, configVars>>

\* handleMouseLeave
MouseLeave ==
    /\ Rendered
    /\ hoveredIndex' = NoIndex
    /\ pointer' = NoPointer
    /\ event' = "mouseleave"
    /\ UNCHANGED <<impl, history>>
    /\ UNCHANGED <<alignVars, pageVars, cacheVars, tradingVars, stocksVars,
                   notifyVars, configVars>>

\* handleTouchEnd
TouchEnd ==
    /\ Rendered
    /\ impl = "component"
    /\ hoveredIndex' = NoIndex
    /\ pointer' = NoPointer
    /\ event' = "touchend"
    /\ UNCHANGED <<impl, history>>
    /\ UNCHANGED <<alignVars, pageVars, cacheVars, tradingVars, stocksVars,
                   notifyVars, configVars>>

\* The parent renders the chart with another history.  The component keeps
\* its state while it stays mounted; the parent unmounts it when the history
\* is empty.  The copy in the page is a function created anew by every
\* render of Home, so a render of Home mounts a fresh chart.  A render
\* that throws takes the page down: no render follows it.
Remounts(h) == impl = "page" \/ h = <<>> \/ history = <<>>

ReplaceHistory(h) ==
    /\ ~RenderThrows
    /\ history' = h
    /\ hoveredIndex' = IF Remounts(h) THEN NoIndex ELSE hoveredIndex
    /\ pointer' = NoPointer
    /\ event' = IF Remounts(h) THEN "mount" ELSE "render"
    /\ UNCHANGED impl
    /\ UNCHANGED <<alignVars, pageVars, cacheVars, tradingVars, stocksVars,
                   notifyVars, configVars>>

ChartNext ==
    \/ \E k \in PointerSteps : \E w \in RenderedWidths(impl) : MouseMove(k, w)
    \/ \E k \in PointerSteps : \E w \in RenderedWidths(impl) : TouchMove(k, w)
    \/ TouchMoveNoTouches
    \/ MouseLeave
    \/ TouchEnd
    \/ \E h \in Histories : ReplaceHistory(h)

----------------------------------------------------------------------------
(* Portfolio page: loading portfolios and charts one after another *)

Null == [null |-> TRUE]
Message(m) == [null |-> FALSE, message |-> m]

\* The most calls of fetchPriceHistory that await the endpoint at one time.
MaxCalls == 2

\* What the user can put into the bot selector and the symbol input.
BotIds == {"", "bot-a", "bot-b", "bot-c"}
TypedSymbols == {"", " ", "aapl", "MSFT"}

\* String.prototype.toUpperCase and trim on the strings above
ToUpperCase(s) == IF s = "aapl" THEN "AAPL" ELSE s
Trim(s) == IF s = " " THEN "" ELSE s

\* A trade of the portfolio endpoint: Trade with its symbol.
SymbolTrade(i, sym, action, pq, timestamp) ==
    [symbol |-> sym]
        @@ MkTrade(i, [action |-> action, pq |-> pq, timestamp |-> timestamp])

\* The body the portfolio endpoint answers for a bot: bot-a has traded
\* AAPL, bot-b has not traded, bot-c has traded MSFT.
ServerPortfolio(b) ==
    [null   |-> FALSE,
     cash   |-> CASE b = "bot-a" -> 990 [] b = "bot-c" -> 1040 [] OTHER -> 1000,
     trades |-> CASE b = "bot-a" ->
                       <<SymbolTrade(1, "AAPL", "BUY", <<10, 1>>, "D1T10")>>
                  [] b = "bot-c" ->
                       <<SymbolTrade(1, "MSFT", "SELL", <<20, 2>>, "D1T10")>>
                  [] OTHER -> <<>>]

\* The body the history endpoint answers for a symbol.
SeriesOf(sym) ==
    IF sym = "AAPL" THEN <<PriceItem("D0T10"), PriceItem("D1T10")>>
    ELSE <<PriceItem("D1T10"), PriceItem("D2T10")>>

NoCall == [pc |-> "idle"]

\* Sequence q without its element i.
Without(q, i) == [j \in 1 .. Len(q) - 1 |-> IF j < i THEN q[j] ELSE q[j + 1]]

\* What a render of the page takes from the state for its inputs and
\* handlers.
PageShown(p, symbol, input, busy) ==
    [portfolio |-> p, chartSymbol |-> symbol, showChartInput |-> input,
     loading |-> busy]

PortfolioInit ==
    /\ tz \in TimeZones
    /\ trades = <<>>
    /\ pc = "idle"
    /\ response = NoResponse
    /\ priceHistory = <<>>
    /\ loadingChart = FALSE
    /\ returned = Pending
    /\ logged = "nothing"
    /\ portfolio = Null
    /\ chartSymbol = ""
    /\ showChartInput = FALSE
    /\ loading = FALSE
    /\ error = Null
    /\ portfolioCall = NoCall
    /\ chartCalls = <<>>
    /\ shownPage = PageShown(Null, "", FALSE, FALSE)

\* What no step of the page touches.
PageFrame ==
    /\ UNCHANGED <<tz, trades, pc, response, returned, logged>>
    /\ UNCHANGED <<chartVars, cacheVars, tradingVars, stocksVars, notifyVars,
                   configVars>>

\* fetchPortfolio up to its first await, with botId = b.  The button is
\* disabled while the loading of the latest render is set; what a handler
\* of an input sets is rendered before the next input.
LoadPortfolio(b) ==
    /\ ~shownPage.loading
    /\ IF b = ""
       THEN /\ error' = Message("Please enter a Bot ID")
            /\ UNCHANGED <<loading, portfolioCall, shownPage>>
       ELSE /\ loading' = TRUE
            /\ error' = Null
            /\ portfolioCall' = [pc |-> "fetching", botId |-> b]
            /\ shownPage' = [shownPage EXCEPT !.loading = TRUE]
    /\ UNCHANGED <<portfolio, chartSymbol, showChartInput, chartCalls,
                   priceHistory, loadingChart>>
    /\ PageFrame

\* The portfolio endpoint answers ok: setPortfolio, then either the call of
\* fetchPriceHistory up to its first await, or setShowChartInput and the
\* finally block.
PortfolioOk ==
    /\ portfolioCall.pc = "fetching"
    /\ LET data == ServerPortfolio(portfolioCall.botId)
       IN  /\ portfolio' = data
           /\ IF Len(data.trades) > 0
              THEN /\ Len(chartCalls) < MaxCalls
                   /\ chartSymbol' = data.trades[1].symbol
                   /\ loadingChart' = TRUE
                   /\ chartCalls' = Append(chartCalls,
                          [symbol  |-> data.trades[1].symbol,
                           trades  |-> data.trades,
                           awaited |-> TRUE])
                   /\ portfolioCall' = [portfolioCall EXCEPT !.pc = "history"]
                   /\ UNCHANGED <<showChartInput, loading>>
              ELSE /\ showChartInput' = TRUE
                   /\ loading' = FALSE
                   /\ portfolioCall' = NoCall
                   /\ UNCHANGED <<chartSymbol, loadingChart, chartCalls>>
    /\ UNCHANGED <<error, priceHistory, shownPage>>
    /\ PageFrame

\* The portfolio endpoint answers not ok ('Portfolio not found') or the
\* fetch rejects (the message of the error): the catch and finally blocks.
PortfolioFails(message) ==
    /\ portfolioCall.pc = "fetching"
    /\ error' = Message(message)
    /\ portfolio' = Null
    /\ loading' = FALSE
    /\ portfolioCall' = NoCall
    /\ UNCHANGED <<chartSymbol, showChartInput, chartCalls, priceHistory,
                   loadingChart, shownPage>>
    /\ PageFrame

\* The symbol input is rendered under a portfolio once showChartInput is
\* set: the input of the latest render is the one the user types into.
ChartInputShown == ~shownPage.portfolio.null /\ shownPage.showChartInput

\* onChange of the symbol input
SetChartSymbol(s) ==
    /\ ChartInputShown
    /\ chartSymbol' = ToUpperCase(s)
    /\ shownPage' = [shownPage EXCEPT !.chartSymbol = ToUpperCase(s)]
    /\ UNCHANGED <<portfolio, showChartInput, loading, error, portfolioCall,
                   chartCalls, priceHistory, loadingChart>>
    /\ PageFrame

\* loadChartForSymbol, from the button or from Enter in the input (Enter
\* also while a chart is loading), with the call of fetchPriceHistory up to
\* its first await.  It reads the chartSymbol and the portfolio of the
\* render it was made in.
LoadChartForSymbol ==
    /\ ChartInputShown
    /\ IF Trim(shownPage.chartSymbol) = ""
       THEN UNCHANGED <<chartCalls, loadingChart>>
       ELSE /\ Len(chartCalls) < MaxCalls
            /\ loadingChart' = TRUE
            /\ chartCalls' = Append(chartCalls,
                   [symbol  |-> ToUpperCase(shownPage.chartSymbol),
                    trades  |-> shownPage.portfolio.trades,
                    awaited |-> FALSE])
    /\ UNCHANGED <<portfolio, chartSymbol, showChartInput, loading, error,
                   portfolioCall, priceHistory, shownPage>>
    /\ PageFrame

\* React renders the page after the state was set outside a handler of an
\* input (in the continuation of a request).
RenderPage ==
    /\ shownPage # PageShown(portfolio, chartSymbol, showChartInput, loading)
    /\ shownPage' = PageShown(portfolio, chartSymbol, showChartInput, loading)
    /\ UNCHANGED <<portfolio, chartSymbol, showChartInput, loading, error,
                   portfolioCall, chartCalls, priceHistory, loadingChart>>
    /\ PageFrame

\* fetchPortfolio awaits the call it made: when that call ends, its
\* finally block runs.
AfterHistory(call) ==
    IF call.awaited
    THEN loading' = FALSE /\ portfolioCall' = NoCall
    ELSE UNCHANGED <<loading, portfolioCall>>

\* The history endpoint answers call i ok: the rest of fetchPriceHistory.
ChartHistoryOk(i) ==
    /\ i \in DOMAIN chartCalls
    /\ priceHistory' = Align(tz, SeriesOf(chartCalls[i].symbol), chartCalls[i].trades)
    /\ loadingChart' = FALSE
    /\ chartCalls' = Without(chartCalls, i)
    /\ AfterHistory(chartCalls[i])
    /\ UNCHANGED <<portfolio, chartSymbol, showChartInput, error, shownPage>>
    /\ PageFrame

\* The history endpoint answers call i not ok, or the fetch rejects:
\* console.error, and the finally block.
ChartHistoryFails(i) ==
    /\ i \in DOMAIN chartCalls
    /\ loadingChart' = FALSE
    /\ chartCalls' = Without(chartCalls, i)
    /\ AfterHistory(chartCalls[i])
    /\ UNCHANGED <<portfolio, chartSymbol, showChartInput, error, priceHistory,
                   shownPage>>
    /\ PageFrame

PortfolioNext ==
    \/ \E b \in BotIds : LoadPortfolio(b)
    \/ PortfolioOk
    \/ \E m \in {"Portfolio not found", "Failed to fetch"} : PortfolioFails(m)
    \/ \E s \in TypedSymbols : SetChartSymbol(s)
    \/ LoadChartForSymbol
    \/ RenderPage
    \/ \E i \in 1 .. MaxCalls : ChartHistoryOk(i)
    \/ \E i \in 1 .. MaxCalls : ChartHistoryFails(i)

PageIdle ==
    /\ portfolio = Null
    /\ chartSymbol = ""
    /\ showChartInput = FALSE
    /\ loading = FALSE
    /\ error = Null
    /\ portfolioCall = NoCall
    /\ chartCalls = <<>>
    /\ shownPage = PageShown(Null, "", FALSE, FALSE)

----------------------------------------------------------------------------
(* usePriceHistory: the cache of price series by symbol and timeframe.  The *)
(* fetchPriceHistory of app/page.tsx goes through the same steps, with the  *)
(* timeframe taken from its state.  fetchPriceHistory is re-created by the  *)
(* render that follows a change of priceHistory (useCallback with           *)
(* [priceHistory]); until that render the callers hold the function of the  *)
(* render before, which reads the priceHistory of that render.              *)

\* The most calls of fetchPriceHistory that await the endpoint at one time.
MaxFetches == 2

CacheSymbols == {"BRK", "BRK-B"}
Timeframes == {"1h", "1d"}
CacheSeries == {<<>>, <<PriceItem("D0T10")>>}

\* cacheKey = `${symbol}-${timeframe}`
CacheKey(symbol, timeframe) == symbol \o "-" \o timeframe

\* priceHistory[cacheKey]
Defined(v) == [undefined |-> FALSE, value |-> v]
Entry(byKey, cacheKey) ==
    IF cacheKey \in DOMAIN byKey THEN Defined(byKey[cacheKey]) ELSE Undefined

\* getPriceHistoryForStock(symbol, timeframe)
GetPriceHistoryForStock(byKey, symbol, timeframe) ==
    Entry(byKey, CacheKey(symbol, timeframe))

\* loadingSymbol is null or a symbol
Loading(symbol) == [null |-> FALSE, symbol |-> symbol]

\* A store that drops the entries of the other keys.
StoredAlone(prev, cacheKey, data) == cacheKey :> data

\* prev => ({ ...prev, [cacheKey]: data })
Stored(prev, cacheKey, data) == (cacheKey :> data) @@ prev

CacheInit ==
    /\ priceHistoryByKey = << >>
    /\ renderedHistory = << >>
    /\ loadingSymbol = Null
    /\ fetches = <<>>

\* What no step of the hook touches.
CacheFrame ==
    UNCHANGED <<alignVars, chartVars, pageVars, tradingVars, stocksVars,
                notifyVars, configVars>>

\* fetchPriceHistory(symbol, timeframe) up to its first await: it returns at
\* once when the priceHistory it closes over has an entry for the key (an
\* array, empty or not, is truthy).
CallCached(symbol, timeframe) ==
    /\ IF ~Entry(renderedHistory, CacheKey(symbol, timeframe)).undefined
       THEN UNCHANGED <<loadingSymbol, fetches>>
       ELSE /\ Len(fetches) < MaxFetches
            /\ loadingSymbol' = Loading(symbol)
            /\ fetches' = Append(fetches,
                   [symbol    |-> symbol,
                    timeframe |-> timeframe,
                    cacheKey  |-> CacheKey(symbol, timeframe)])
    /\ UNCHANGED <<priceHistoryByKey, renderedHistory>>
    /\ CacheFrame

\* The endpoint answers call i ok with a series: setPriceHistory and the
\* finally block.
FetchOk(i, data) ==
    /\ i \in DOMAIN fetches
    /\ priceHistoryByKey' = Stored(priceHistoryByKey, fetches[i].cacheKey, data)
    /\ loadingSymbol' = Null
    /\ fetches' = Without(fetches, i)
    /\ UNCHANGED renderedHistory
    /\ CacheFrame

\* The endpoint answers call i not ok, or the fetch rejects: the catch
\* block logs, and the finally block.
FetchFails(i) ==
    /\ i \in DOMAIN fetches
    /\ loadingSymbol' = Null
    /\ fetches' = Without(fetches, i)
    /\ UNCHANGED <<priceHistoryByKey, renderedHistory>>
    /\ CacheFrame

\* React renders with the priceHistory that setPriceHistory stored: the
\* callers get the fetchPriceHistory of this render.
RenderCache ==
    /\ renderedHistory # priceHistoryByKey
    /\ renderedHistory' = priceHistoryByKey
    /\ UNCHANGED <<priceHistoryByKey, loadingSymbol, fetches>>
    /\ CacheFrame

CacheNext ==
    \/ \E symbol \in CacheSymbols : \E timeframe \in Timeframes :
          CallCached(symbol, timeframe)
    \/ \E i \in 1 .. MaxFetches : \E data \in CacheSeries : FetchOk(i, data)
    \/ \E i \in 1 .. MaxFetches : FetchFails(i)
    \/ RenderCache

CacheIdle ==
    /\ priceHistoryByKey = << >>
    /\ renderedHistory = << >>
    /\ loadingSymbol = Null
    /\ fetches = <<>>

----------------------------------------------------------------------------
(* Trading page (src/frontend/app/trading/page.tsx): the list of active     *)
(* bots, its copy in sessionStorage, loadAndVerifyBots, startBot, stopBot.  *)
(* The calls overlap: each loadAndVerifyBots goes on with the storage entry *)
(* it read, each startBot and stopBot with the activeBots of the render it  *)
(* was called in.                                                           *)

\* The most the page has pending at one time, a request that awaits the
\* backend counting two and a message timer one.
MaxInFlight == 4

TradingBots == {"b1", "b2"}

\* The config the page starts with (useState<TradingConfig>).
PageConfig ==
    [symbol |-> "AAPL", strategy |-> "momentum", capital |-> 10000,
     entry_threshold |-> "0.02", exit_threshold |-> "0.03",
     stop_loss |-> "-0.05"]

\* What the backend lists for a running bot: b1 carries its config, the
\* others only their symbol and strategy.
BackendBot(b) ==
    IF b = "b1"
    THEN [bot_id |-> b, status |-> "running", symbol |-> "AAPL",
          strategy |-> "momentum", config |-> PageConfig]
    ELSE [bot_id |-> b, status |-> "running", symbol |-> "MSFT",
          strategy |-> "mean_reversion"]

\* A listed bot whose config is null.
UnconfiguredBot(b) ==
    [bot_id |-> b, status |-> "running", symbol |-> "AAPL",
     strategy |-> "momentum", config |-> Null]

BackendLists ==
    { <<UnconfiguredBot("b1")>>,
      <<BackendBot("b2"), BackendBot("b1")>> }

FormatBotAsReported(bot) == bot

\* bot.config: a config that is falsy (null, '', 0, false) is Null here.
HasConfig(bot) == "config" \in DOMAIN bot /\ bot.config # Null

\* bot.config || { symbol: bot.symbol, strategy: bot.strategy, ... }
FormatBot(bot) ==
    [bot_id |-> bot.bot_id,
     status |-> "started",
     config |-> IF HasConfig(bot)
                THEN bot.config
                ELSE [symbol |-> bot.symbol, strategy |-> bot.strategy,
                      capital |-> 10000, entry_threshold |-> "0.02",
                      exit_threshold |-> "0.03", stop_loss |-> "-0.05"]]

FormattedBots(backendBots) ==
    [i \in 1 .. Len(backendBots) |-> FormatBot(backendBots[i])]

\* The body the backend answers startBot with.
StartedBot(b) == [bot_id |-> b, status |-> "started", config |-> PageConfig]

SavedLists == { <<>>, <<StartedBot("b1"), StartedBot("b2")>> }

\* sessionStorage.getItem is null or the string JSON.stringify wrote.
Stringify(bots) == [null |-> FALSE, json |-> bots]
Parse(entry) == entry.json

Ids(bots) == { bots[i].bot_id : i \in DOMAIN bots }

Notice(type, text) == [null |-> FALSE, type |-> type, text |-> text]

\* verifiedBots: the saved bots whose portfolio request answered ok.
RECURSIVE Verified(_, _)
Verified(bots, answers) ==
    IF answers = <<>> THEN <<>>
    ELSE LET n == Len(answers)
             before == Verified(bots, SubSeq(answers, 1, n - 1))
         IN  IF answers[n] = "ok" THEN Append(before, bots[n]) ELSE before

\* A portfolio request that rejects is caught and counts as not ok.
PortfolioAnswers == {"ok", "not ok"}

\* A loadAndVerifyBots awaiting the list of active bots, and what the
\* latest run to finish was answered first.
Awaiting == [pc |-> "active"]
NoRun == [pc |-> "idle"]
Finished(first) == [pc |-> "done", first |-> first]

\* What a render of the page takes from the state for its buttons and
\* handlers.
TradingShown(bots, busy) == [activeBots |-> bots, loading |-> busy]

\* The requests of the page that await the backend, and the timers that
\* wait to clear the message.
InFlight ==
    2 * (Len(loads) + Len(stops) + (IF start = NoCall THEN 0 ELSE 1))
      + messageTimers

TradingInit ==
    /\ activeBots = <<>>
    /\ storedBots \in {Null} \cup { Stringify(l) : l \in SavedLists }
    /\ tradingLoading = FALSE
    /\ tradingMessage = Null
    /\ messageTimers = 0
    /\ loads = <<Awaiting>>
    /\ finished = NoRun
    /\ start = NoCall
    /\ stops = <<>>
    /\ stoppedOk = {}
    /\ shownTrading = TradingShown(<<>>, FALSE)

TradingFrame ==
    UNCHANGED <<alignVars, chartVars, pageVars, cacheVars, stocksVars,
                notifyVars, configVars>>

\* useEffect(..., [config.symbol]) after a change of the symbol, or the
\* Refresh button.
LoadAndVerifyBots ==
    /\ InFlight + 2 <= MaxInFlight
    /\ loads' = Append(loads, Awaiting)
    /\ UNCHANGED <<activeBots, storedBots, tradingLoading, tradingMessage,
                   messageTimers, finished, start, stops, stoppedOk,
                   shownTrading>>
    /\ TradingFrame

\* response.ok && backendBots.length > 0
ActiveBotsList(i, backendBots) ==
    /\ i \in DOMAIN loads
    /\ loads[i].pc = "active"
    /\ activeBots' = FormattedBots(backendBots)
    /\ storedBots' = Stringify(FormattedBots(backendBots))
    /\ loads' = Without(loads, i)
    /\ finished' = Finished("list")
    /\ stoppedOk' = {}
    /\ UNCHANGED <<tradingLoading, tradingMessage, messageTimers, start, stops,
                   shownTrading>>
    /\ TradingFrame

\* The backend answers with an empty list or with a status that is not
\* ok: the saved bots are verified.
ActiveBotsNone(i) ==
    /\ i \in DOMAIN loads
    /\ loads[i].pc = "active"
    /\ IF storedBots.null
       THEN /\ loads' = Without(loads, i)
            /\ finished' = Finished("none")
            /\ UNCHANGED <<activeBots, storedBots, stoppedOk>>
       ELSE IF Parse(storedBots) = <<>>
       THEN /\ activeBots' = <<>>
            /\ storedBots' = Stringify(<<>>)
            /\ loads' = Without(loads, i)
            /\ finished' = Finished("none")
            /\ stoppedOk' = {}
       ELSE /\ loads' = [loads EXCEPT ![i] =
                           [pc |-> "verify", entry |-> storedBots,
                            answers |-> <<>>]]
            /\ UNCHANGED <<activeBots, storedBots, finished, stoppedOk>>
    /\ UNCHANGED <<tradingLoading, tradingMessage, messageTimers, start, stops,
                   shownTrading>>
    /\ TradingFrame

CaughtForgets(entry) == <<>>

\* catch (error): what the outer catch does with the saved bots.
Caught(entry) == Parse(entry)

\* The request for the active bots rejects.
ActiveBotsThrows(i) ==
    /\ i \in DOMAIN loads
    /\ loads[i].pc = "active"
    /\ IF storedBots.null
       THEN UNCHANGED <<activeBots, stoppedOk>>
       ELSE /\ activeBots' = Caught(storedBots)
            /\ stoppedOk' = {}
    /\ loads' = Without(loads, i)
    /\ finished' = Finished("throws")
    /\ UNCHANGED <<storedBots, tradingLoading, tradingMessage, messageTimers,
                   start, stops, shownTrading>>
    /\ TradingFrame

\* The portfolio request of the next saved bot of run i answers.
PortfolioCheck(i, answer) ==
    /\ i \in DOMAIN loads
    /\ loads[i].pc = "verify"
    /\ LET answers == Append(loads[i].answers, answer)
           bots == Parse(loads[i].entry)
       IN  IF Len(answers) < Len(bots)
           THEN /\ loads' = [loads EXCEPT ![i].answers = answers]
                /\ UNCHANGED <<activeBots, storedBots, finished, stoppedOk>>
           ELSE /\ activeBots' = Verified(bots, answers)
                /\ storedBots' = Stringify(Verified(bots, answers))
                /\ loads' = Without(loads, i)
                /\ finished' = Finished("none")
                /\ stoppedOk' = {}
    /\ UNCHANGED <<tradingLoading, tradingMessage, messageTimers, start, stops,
                   shownTrading>>
    /\ TradingFrame

\* The ids the page or the requests in flight know of; the backend gives a
\* new bot an id of its own.
KnownIds ==
    Ids(activeBots) \cup Ids(shownTrading.activeBots) \cup stoppedOk
      \cup (IF storedBots.null THEN {} ELSE Ids(Parse(storedBots)))
      \cup UNION { Ids(stops[i].activeBots) : i \in DOMAIN stops }
      \cup UNION { IF loads[i].pc = "verify"
                   THEN Ids(Parse(loads[i].entry)) ELSE {} : i \in DOMAIN loads }

\* The Start button is disabled while the loading of the latest render is
\* set; startBot holds the activeBots of that render, and the loading it
\* sets is rendered before the next click.
StartBot ==
    /\ InFlight + 2 <= MaxInFlight
    /\ ~shownTrading.loading
    /\ tradingLoading' = TRUE
    /\ start' = [pc |-> "await", activeBots |-> shownTrading.activeBots]
    /\ shownTrading' = [shownTrading EXCEPT !.loading = TRUE]
    /\ UNCHANGED <<activeBots, storedBots, tradingMessage, messageTimers,
                   loads, finished, stops, stoppedOk>>
    /\ TradingFrame

StartOk(b) ==
    /\ start # NoCall
    /\ b \notin KnownIds \cup Ids(start.activeBots)
    /\ LET updatedBots == Append(start.activeBots, StartedBot(b))
       IN  /\ activeBots' = updatedBots
           /\ storedBots' = Stringify(updatedBots)
    /\ tradingMessage' =
           Notice("success", "Bot started successfully! Bot ID: " \o b)
    /\ messageTimers' = messageTimers + 1
    /\ tradingLoading' = FALSE
    /\ start' = NoCall
    /\ stoppedOk' = {}
    /\ UNCHANGED <<loads, finished, stops, shownTrading>>
    /\ TradingFrame

\* err.message in startBot: of the Error thrown when the answer is not
\* ok, or of what fetch or response.json() rejects with.
StartFailures ==
    {"Failed to start bot", "Failed to fetch", "Unexpected end of JSON input"}

\* err.message in stopBot, which does not read the body of the answer.
StopFailures == {"Failed to stop bot", "Failed to fetch"}

StartFails(text) ==
    /\ start # NoCall
    /\ tradingMessage' = Notice("error", text)
    /\ tradingLoading' = FALSE
    /\ start' = NoCall
    /\ UNCHANGED <<activeBots, storedBots, messageTimers, loads, finished,
                   stops, stoppedOk, shownTrading>>
    /\ TradingFrame

\* The Stop button of a bot listed by the latest render; stopBot holds
\* the activeBots of that render.
StopBot(botId) ==
    /\ InFlight + 2 <= MaxInFlight
    /\ botId \in Ids(shownTrading.activeBots)
    /\ stops' = Append(stops, [botId |-> botId,
                               activeBots |-> shownTrading.activeBots])
    /\ UNCHANGED <<activeBots, storedBots, tradingLoading, tradingMessage,
                   messageTimers, loads, finished, start, stoppedOk,
                   shownTrading>>
    /\ TradingFrame

\* activeBots.filter(bot => bot.bot_id !== botId)
Filtered(bots, botId) == SelectSeq(bots, LAMBDA bot : bot.bot_id # botId)

StopOk(i) ==
    /\ i \in DOMAIN stops
    /\ LET updatedBots == Filtered(stops[i].activeBots, stops[i].botId)
       IN  /\ activeBots' = updatedBots
           /\ storedBots' = Stringify(updatedBots)
    /\ tradingMessage' = Notice("success", "Bot stopped successfully!")
    /\ messageTimers' = messageTimers + 1
    /\ stops' = Without(stops, i)
    /\ stoppedOk' = stoppedOk \cup {stops[i].botId}
    /\ UNCHANGED <<tradingLoading, loads, finished, start, shownTrading>>
    /\ TradingFrame

StopFails(i, text) ==
    /\ i \in DOMAIN stops
    /\ tradingMessage' = Notice("error", text)
    /\ stops' = Without(stops, i)
    /\ UNCHANGED <<activeBots, storedBots, tradingLoading, messageTimers,
                   loads, finished, start, stoppedOk, shownTrading>>
    /\ TradingFrame

\* React renders the page after the state was set outside a handler of a
\* button (in the continuation of a request).
RenderTrading ==
    /\ shownTrading # TradingShown(activeBots, tradingLoading)
    /\ shownTrading' = TradingShown(activeBots, tradingLoading)
    /\ UNCHANGED <<activeBots, storedBots, tradingLoading, tradingMessage,
                   messageTimers, loads, finished, start, stops, stoppedOk>>
    /\ TradingFrame

\* setTimeout(() => setMessage(null), 5000)
MessageTimeout ==
    /\ messageTimers > 0
    /\ messageTimers' = messageTimers - 1
    /\ tradingMessage' = Null
    /\ UNCHANGED <<activeBots, storedBots, tradingLoading, loads, finished,
                   start, stops, stoppedOk, shownTrading>>
    /\ TradingFrame

TradingNext ==
    \/ LoadAndVerifyBots
    \/ \E i \in DOMAIN loads, backendBots \in BackendLists :
           ActiveBotsList(i, backendBots)
    \/ \E i \in DOMAIN loads : ActiveBotsNone(i)
    \/ \E i \in DOMAIN loads : ActiveBotsThrows(i)
    \/ \E i \in DOMAIN loads, answer \in PortfolioAnswers :
           PortfolioCheck(i, answer)
    \/ StartBot
    \/ \E b \in TradingBots : StartOk(b)
    \/ \E text \in StartFailures : StartFails(text)
    \/ \E botId \in TradingBots : StopBot(botId)
    \/ \E i \in DOMAIN stops : StopOk(i)
    \/ \E i \in DOMAIN stops, text \in StopFailures : StopFails(i, text)
    \/ RenderTrading
    \/ MessageTimeout

TradingIdle ==
    /\ activeBots = <<>>
    /\ storedBots = Null
    /\ tradingLoading = FALSE
    /\ tradingMessage = Null
    /\ messageTimers = 0
    /\ loads = <<>>
    /\ finished = NoRun
    /\ start = NoCall
    /\ stops = <<>>
    /\ stoppedOk = {}
    /\ shownTrading = TradingShown(<<>>, FALSE)

----------------------------------------------------------------------------
(* useStocks (src/frontend/hooks/useStocks.ts): the stock list, the calls   *)
(* of fetchTopStocks in flight and the auto-refresh interval.  A change of  *)
(* state and the effects React runs for it are one step.                    *)

MaxStockFetches == 3

\* type Timeframe
StockTimeframes == {"1m", "1h", "1d"}

\* What the backend answers for a timeframe: the change of a stock is
\* taken over that timeframe.
ServerStocks(tf) ==
    << [symbol |-> "AAPL", trend |-> "BULLISH",
        change_ref_datetime |-> tf \o " ago"] >>

StockFailures == {"Failed to fetch stocks", "Failed to fetch"}

Now == [null |-> FALSE, date |-> "now"]

TimerIds == { t.id : t \in intervals }

\* The id setInterval returns: one no running timer has and the ref does
\* not hold.
NewTimerId ==
    CHOOSE n \in 1 .. Cardinality(intervals) + 2 :
        /\ n \notin TimerIds
        /\ intervalRef.null \/ intervalRef.id # n
        /\ \A m \in 1 .. n - 1 :
               m \in TimerIds \/ (~intervalRef.null /\ intervalRef.id = m)

\* clearInterval(intervalRef.current), skipped when the ref holds null.
Cleared(running, ref) ==
    IF ref.null THEN running ELSE { t \in running : t.id # ref.id }

NoCleanup(running, ref, wasRefreshing) == running

\* The cleanup the effect returned when it last ran with isAutoRefreshing.
Cleanup(running, ref, wasRefreshing) ==
    IF wasRefreshing THEN Cleared(running, ref) ELSE running

\* fetchTopStocks up to its await, with the timeframe of its closure.
Fetching(tf) == Append(stockFetches, [timeframe |-> tf])

\* The auto-refresh effect re-runs: isAutoRefreshing was `was` when it last
\* ran and is `is` now, fetchTopStocks closes over tf.
AutoRefreshEffect(was, is, tf) ==
    LET afterCleanup == Cleanup(intervals, intervalRef, was)
    IN  IF is
        THEN /\ intervals' =
                    afterCleanup \cup {[id |-> NewTimerId, timeframe |-> tf]}
             /\ intervalRef' = [null |-> FALSE, id |-> NewTimerId]
        ELSE /\ intervals' = Cleared(afterCleanup, intervalRef)
             /\ UNCHANGED intervalRef

\* After the first render and its effects: the initial-fetch effect and the
\* timeframe effect have each called fetchTopStocks.
StocksInit ==
    /\ stocks = <<>>
    /\ stocksLoading = TRUE
    /\ stocksError = Null
    /\ lastUpdate = Null
    /\ currentTimeframe = "1h"
    /\ isAutoRefreshing = FALSE
    /\ fetchedRef = TRUE
    /\ intervalRef = Null
    /\ intervals = {}
    /\ stockFetches = <<[timeframe |-> "1h"], [timeframe |-> "1h"]>>
    /\ stockFailed = FALSE

StocksFrame ==
    UNCHANGED <<alignVars, chartVars, pageVars, cacheVars, tradingVars,
                notifyVars, configVars>>

\* setTimeframe(tf): nothing re-renders when the timeframe is the same.
SetTimeframe(tf) ==
    /\ tf # currentTimeframe
    /\ Len(stockFetches) < MaxStockFetches
    /\ currentTimeframe' = tf
    /\ IF fetchedRef
       THEN /\ stocksLoading' = TRUE
            /\ stockFetches' = Fetching(tf)
       ELSE UNCHANGED <<stocksLoading, stockFetches>>
    /\ AutoRefreshEffect(isAutoRefreshing, isAutoRefreshing, tf)
    /\ UNCHANGED <<stocks, stocksError, lastUpdate, isAutoRefreshing,
                   fetchedRef, stockFailed>>
    /\ StocksFrame

ToggleAutoRefresh ==
    /\ isAutoRefreshing' = ~isAutoRefreshing
    /\ AutoRefreshEffect(isAutoRefreshing, ~isAutoRefreshing, currentTimeframe)
    /\ UNCHANGED <<stocks, stocksLoading, stocksError, lastUpdate,
                   currentTimeframe, fetchedRef, stockFetches, stockFailed>>
    /\ StocksFrame

Refresh ==
    /\ Len(stockFetches) < MaxStockFetches
    /\ stocksLoading' = TRUE
    /\ stockFetches' = Fetching(currentTimeframe)
    /\ UNCHANGED <<stocks, stocksError, lastUpdate, currentTimeframe,
                   isAutoRefreshing, fetchedRef, intervalRef, intervals,
                   stockFailed>>
    /\ StocksFrame

\* A running interval timer calls the fetchTopStocks it closed over.
IntervalFires(t) ==
    /\ t \in intervals
    /\ Len(stockFetches) < MaxStockFetches
    /\ stocksLoading' = TRUE
    /\ stockFetches' = Fetching(t.timeframe)
    /\ UNCHANGED <<stocks, stocksError, lastUpdate, currentTimeframe,
                   isAutoRefreshing, fetchedRef, intervalRef, intervals,
                   stockFailed>>
    /\ StocksFrame

StocksOk(i) ==
    /\ i \in DOMAIN stockFetches
    /\ stocks' = ServerStocks(stockFetches[i].timeframe)
    /\ lastUpdate' = Now
    /\ stocksError' = Null
    /\ stocksLoading' = FALSE
    /\ stockFetches' = Without(stockFetches, i)
    /\ UNCHANGED <<currentTimeframe, isAutoRefreshing, fetchedRef, intervalRef,
                   intervals, stockFailed>>
    /\ StocksFrame

StocksFails(i, text) ==
    /\ i \in DOMAIN stockFetches
    /\ stocksError' = Message(text)
    /\ stocksLoading' = FALSE
    /\ stockFetches' = Without(stockFetches, i)
    /\ stockFailed' = TRUE
    /\ UNCHANGED <<stocks, lastUpdate, currentTimeframe, isAutoRefreshing,
                   fetchedRef, intervalRef, intervals>>
    /\ StocksFrame

StocksNext ==
    \/ \E tf \in StockTimeframes : SetTimeframe(tf)
    \/ ToggleAutoRefresh
    \/ Refresh
    \/ \E t \in intervals : IntervalFires(t)
    \/ \E i \in DOMAIN stockFetches : StocksOk(i)
    \/ \E i \in DOMAIN stockFetches, text \in StockFailures :
           StocksFails(i, text)

StocksIdle ==
    /\ stocks = <<>>
    /\ stocksLoading = TRUE
    /\ stocksError = Null
    /\ lastUpdate = Null
    /\ currentTimeframe = "1h"
    /\ isAutoRefreshing = FALSE
    /\ fetchedRef = FALSE
    /\ intervalRef = Null
    /\ intervals = {}
    /\ stockFetches = <<>>
    /\ stockFailed = FALSE

----------------------------------------------------------------------------
(* useNotifications (src/unnamed/part_001): the alert conditions checked    *)
(* against the state recorded for each symbol.  The browser supports        *)
(* notifications and service workers.                                       *)

AlertSymbols == {"AAPL", "MSFT"}
Trends == {"BULLISH", "BEARISH"}
Scores == {84, 85}
Permissions == {"default", "granted", "denied"}

\* The most notifications that wait for the service worker at one time.
MaxPending == 1

\* A Stock as far as the hook reads it.  news_sentiment is optional; a
\* news_sentiment that is falsy (null, '') is "" here.
AlertStocks(symbol) ==
    { [symbol |-> symbol, trend |-> t, potential_score |-> s,
       news_sentiment |-> "positive"] : t \in Trends, s \in Scores }
      \cup { [symbol |-> symbol, trend |-> "BULLISH", potential_score |-> 85,
              news_sentiment |-> n] : n \in {"", "negative"} }
      \cup { [symbol |-> symbol, trend |-> "BULLISH", potential_score |-> 85] }

Rising ==
    { [symbol |-> "MSFT", trend |-> t, potential_score |-> 90,
       news_sentiment |-> "positive"] : t \in Trends }

\* The stock list of the page: no symbol twice.
StockLists ==
    {<<>>}
      \cup { <<a>> : a \in AlertStocks("AAPL") \cup Rising }
      \cup { <<a, m>> : a \in AlertStocks("AAPL"), m \in Rising }

\* { trend, score, sentiment: stock.news_sentiment || 'neutral' }
Current(stock) ==
    [trend |-> stock.trend,
     score |-> stock.potential_score,
     sentiment |-> IF "news_sentiment" \in DOMAIN stock
                      /\ stock.news_sentiment # ""
                   THEN stock.news_sentiment
                   ELSE "neutral"]

ScoreThreshold == 85

AlertsWithoutHistory(ref, stock) ==
    /\ Current(stock).score >= ScoreThreshold
    /\ Current(stock).sentiment = "positive"
    /\ Current(stock).trend = "BULLISH"

\* The condition under which checkAlertConditions calls sendNotification.
Alerts(ref, stock) ==
    /\ Current(stock).score >= ScoreThreshold
    /\ Current(stock).sentiment = "positive"
    /\ Current(stock).trend = "BULLISH"
    /\ ~ref[stock.symbol].undefined
    /\ ref[stock.symbol].value.trend # "BULLISH"

Recorded(ref, stock) ==
    [ref EXCEPT ![stock.symbol] = Defined(Current(stock))]

\* stocks.forEach of checkAlertConditions over the first n stocks: the
\* record it leaves and the symbols it sent a notification for.
RECURSIVE Checked(_, _, _)
Checked(ref, list, n) ==
    IF n = 0 THEN [ref |-> ref, sent |-> <<>>]
    ELSE LET before == Checked(ref, list, n - 1)
         IN  [ref |-> Recorded(before.ref, list[n]),
              sent |-> IF Alerts(before.ref, list[n])
                       THEN Append(before.sent, list[n].symbol)
                       ELSE before.sent]

\* stocks.forEach of enableNotifications.
RECURSIVE Initialized(_, _, _)
Initialized(ref, list, n) ==
    IF n = 0 THEN ref
    ELSE Recorded(Initialized(ref, list, n - 1), list[n])

\* useRef({}): no symbol has a record.
NoRecord == [symbol \in AlertSymbols |-> Undefined]

NotifyInit ==
    /\ notificationsEnabled = FALSE
    /\ enabledSeen = FALSE
    /\ browserPermission \in Permissions
    /\ notificationPermission = browserPermission
    /\ notifyStored = Null
    /\ previousStocksRef = NoRecord
    /\ sent = <<>>
    /\ pending = <<>>
    /\ shown = {}

NotifyFrame ==
    UNCHANGED <<alignVars, chartVars, pageVars, cacheVars, tradingVars,
                stocksVars, configVars>>

\* Notification.requestPermission() answers what the browser holds, or
\* what the user picks when it holds 'default'.
EnableNotifications(list, permission) ==
    /\ browserPermission # "default" => permission = browserPermission
    /\ browserPermission' = permission
    /\ notificationPermission' = permission
    /\ IF permission = "granted"
       THEN /\ notificationsEnabled' = TRUE
            /\ notifyStored' = Message("true")
            /\ previousStocksRef' =
                   Initialized(previousStocksRef, list, Len(list))
       ELSE UNCHANGED <<notificationsEnabled, notifyStored, previousStocksRef>>
    /\ sent' = <<>>
    /\ UNCHANGED <<enabledSeen, pending, shown>>
    /\ NotifyFrame

DisableNotifications ==
    /\ notificationsEnabled' = FALSE
    /\ notifyStored' = Message("false")
    /\ sent' = <<>>
    /\ UNCHANGED <<enabledSeen, notificationPermission, browserPermission,
                   previousStocksRef, pending, shown>>
    /\ NotifyFrame

\* The render after notificationsEnabled changed makes the
\* checkAlertConditions that reads the new value.
RenderNotify ==
    /\ enabledSeen # notificationsEnabled
    /\ enabledSeen' = notificationsEnabled
    /\ UNCHANGED <<notificationsEnabled, notificationPermission,
                   browserPermission, notifyStored, previousStocksRef, sent,
                   pending, shown>>
    /\ NotifyFrame

\* checkAlertConditions reads the notificationsEnabled of the render it
\* was made in.  Each sendNotification that finds Notification.permission
\* 'granted' goes on to wait for the service worker.
CheckAlertConditions(list) ==
    /\ IF ~enabledSeen \/ Len(list) = 0
       THEN /\ sent' = <<>>
            /\ UNCHANGED <<previousStocksRef, pending>>
       ELSE LET result == Checked(previousStocksRef, list, Len(list))
            IN  /\ previousStocksRef' = result.ref
                /\ sent' = result.sent
                /\ IF browserPermission = "granted"
                   THEN /\ Len(pending) + Len(result.sent) <= MaxPending
                        /\ pending' = pending \o result.sent
                   ELSE UNCHANGED pending
    /\ UNCHANGED <<notificationsEnabled, enabledSeen, notificationPermission,
                   browserPermission, notifyStored, shown>>
    /\ NotifyFrame

\* navigator.serviceWorker.ready resolves; showNotification replaces the
\* notification with the same tag.
ShowNotification ==
    /\ pending # <<>>
    /\ shown' = shown \cup {Head(pending)}
    /\ pending' = Tail(pending)
    /\ UNCHANGED <<notificationsEnabled, enabledSeen, notificationPermission,
                   browserPermission, notifyStored, previousStocksRef, sent>>
    /\ NotifyFrame

\* The user changes the permission of the site in the browser settings.
PermissionChanges(permission) ==
    /\ permission # browserPermission
    /\ browserPermission' = permission
    /\ UNCHANGED <<notificationsEnabled, enabledSeen, notificationPermission,
                   notifyStored, previousStocksRef, sent, pending, shown>>
    /\ NotifyFrame

NotifyNext ==
    \/ \E list \in StockLists, permission \in Permissions :
           EnableNotifications(list, permission)
    \/ DisableNotifications
    \/ RenderNotify
    \/ \E list \in StockLists : CheckAlertConditions(list)
    \/ ShowNotification
    \/ \E permission \in Permissions : PermissionChanges(permission)

NotifyIdle ==
    /\ notificationsEnabled = FALSE
    /\ enabledSeen = FALSE
    /\ browserPermission = "default"
    /\ notificationPermission = "default"
    /\ notifyStored = Null
    /\ previousStocksRef = NoRecord
    /\ sent = <<>>
    /\ pending = <<>>
    /\ shown = {}

----------------------------------------------------------------------------
(* api-config (src/unnamed/part_003): the base URL of the backend.  A       *)
(* string is the sequence of its pieces: a piece is "/" or a run of         *)
(* characters that neither starts nor ends with "/"; <<>> is ''.            *)

DefaultUrl == <<"http://localhost:8000">>

TypedUrls ==
    { <<>>, <<"/">>,
      <<"http://api.example.com">>, <<"http://api.example.com", "/">>,
      <<"https://bot.example.com", "/", "/">> }

EnvUrls == {Undefined, Defined(<<>>), Defined(<<"https://api.tbot.example">>)}

Paths == { <<"api", "/", "bots">>, <<"/", "api", "/", "bots">> }

Item(url) == [null |-> FALSE, url |-> url]

EndsWithSlash(s) == Len(s) > 0 /\ s[Len(s)] = "/"
StartsWithSlash(s) == Len(s) > 0 /\ s[1] = "/"

\* if (process.env.NEXT_PUBLIC_API_URL)
EnvSet(env) == ~env.undefined /\ env.value # <<>>

\* if (storedUrl), read only where there is a window
StoredSet(window, stored) == window /\ ~stored.null /\ stored.url # <<>>

GetDefaultApiUrl(window, stored, env) ==
    IF StoredSet(window, stored) THEN stored.url
    ELSE IF EnvSet(env) THEN env.value
    ELSE DefaultUrl

\* url.endsWith('/') ? url.slice(0, -1) : url
CleanUrl(url) ==
    IF EndsWithSlash(url) THEN SubSeq(url, 1, Len(url) - 1) ELSE url

\* path.startsWith('/') ? path : `/${path}`
CleanPath(path) == IF StartsWithSlash(path) THEN path ELSE <<"/">> \o path

ConfigInit ==
    /\ hasWindow \in BOOLEAN
    /\ envUrl \in EnvUrls
    /\ storedUrl \in
           IF hasWindow
           THEN {Null} \cup { Item(CleanUrl(url)) : url \in TypedUrls }
           ELSE {Null}
    /\ baseUrl = GetDefaultApiUrl(hasWindow, storedUrl, envUrl)
    /\ requested = Null

ConfigFrame ==
    UNCHANGED <<alignVars, chartVars, pageVars, cacheVars, tradingVars,
                stocksVars, notifyVars>>

SetBaseUrl(url) ==
    /\ baseUrl' = CleanUrl(url)
    /\ storedUrl' = IF hasWindow THEN Item(CleanUrl(url)) ELSE storedUrl
    /\ UNCHANGED <<hasWindow, envUrl, requested>>
    /\ ConfigFrame

ResetToDefault ==
    /\ baseUrl' = <<"http://localhost:8000">>
    /\ storedUrl' = IF hasWindow THEN Null ELSE storedUrl
    /\ UNCHANGED <<hasWindow, envUrl, requested>>
    /\ ConfigFrame

\* The module is evaluated again (the page is loaded again): new ApiConfig().
NewApiConfig ==
    /\ baseUrl' = GetDefaultApiUrl(hasWindow, storedUrl, envUrl)
    /\ requested' = Null
    /\ UNCHANGED <<hasWindow, envUrl, storedUrl>>
    /\ ConfigFrame

Endpoint(path) ==
    /\ requested' = Item(baseUrl \o CleanPath(path))
    /\ UNCHANGED <<hasWindow, envUrl, storedUrl, baseUrl>>
    /\ ConfigFrame

ConfigNext ==
    \/ \E url \in TypedUrls : SetBaseUrl(url)
    \/ ResetToDefault
    \/ NewApiConfig
    \/ \E path \in Paths : Endpoint(path)

ConfigIdle ==
    /\ hasWindow = TRUE
    /\ envUrl = Undefined
    /\ storedUrl = Null
    /\ baseUrl = DefaultUrl
    /\ requested = Null

----------------------------------------------------------------------------
(* Specifications: each exercises one part of the front end and leaves the  *)
(* state of the others as constructed.                                      *)

ChartIdle ==
    /\ impl = "component"
    /\ history = <<>>
    /\ hoveredIndex = NoIndex
    /\ pointer = NoPointer
    /\ event = "mount"

AlignIdle ==
    /\ tz = "UTC"
    /\ trades = <<>>
    /\ pc = "idle"
    /\ response = NoResponse
    /\ priceHistory = <<>>
    /\ loadingChart = FALSE
    /\ returned = Pending
    /\ logged = "nothing"

LaterIdle == TradingIdle /\ StocksIdle /\ NotifyIdle /\ ConfigIdle

InitAlign == AlignInit /\ ChartIdle /\ PageIdle /\ CacheIdle /\ LaterIdle

SpecAlign == InitAlign /\ [][AlignNext]_vars

InitChart == ChartInit /\ AlignIdle /\ PageIdle /\ CacheIdle /\ LaterIdle

SpecChart == InitChart /\ [][ChartNext]_vars

InitPortfolio == PortfolioInit /\ ChartIdle /\ CacheIdle /\ LaterIdle

SpecPortfolio == InitPortfolio /\ [][PortfolioNext]_vars

InitCache == CacheInit /\ AlignIdle /\ ChartIdle /\ PageIdle /\ LaterIdle

SpecCache == InitCache /\ [][CacheNext]_vars

EarlierIdle == AlignIdle /\ ChartIdle /\ PageIdle /\ CacheIdle

InitTrading ==
    TradingInit /\ EarlierIdle /\ StocksIdle /\ NotifyIdle /\ ConfigIdle

SpecTrading == InitTrading /\ [][TradingNext]_vars

InitStocks ==
    StocksInit /\ EarlierIdle /\ TradingIdle /\ NotifyIdle /\ ConfigIdle

SpecStocks == InitStocks /\ [][StocksNext]_vars

InitNotify ==
    NotifyInit /\ EarlierIdle /\ TradingIdle /\ StocksIdle /\ ConfigIdle

SpecNotify == InitNotify /\ [][NotifyNext]_vars

InitConfig ==
    ConfigInit /\ EarlierIdle /\ TradingIdle /\ StocksIdle /\ NotifyIdle

SpecConfig == InitConfig /\ [][ConfigNext]_vars

----------------------------------------------------------------------------
(* Properties of the alignment (SpecAlign) *)

\* fetchPriceHistory has run to its end on an array answered by the endpoint.
Aligned == pc = "done" /\ response.kind = "ok" /\ response.isArray

Slots(dp) == (IF HasBuy(dp) THEN 1 ELSE 0) + (IF HasSell(dp) THEN 1 ELSE 0)

RECURSIVE SumSlots(_)
SumSlots(points) ==
    IF points = <<>> THEN 0 ELSE Slots(Head(points)) + SumSlots(Tail(points))

\* forEach writes trade k into bucket i.
Wrote(k, i) == OnDate(tz, trades[k], response.data[i])

HasSlot(dp, action) == IF action = "BUY" THEN HasBuy(dp) ELSE HasSell(dp)

ValidDate(s) == ~DateGetTime(s).nan

Distance(k, i) ==
    Abs(DateGetTime(trades[k].timestamp).v - DateGetTime(response.data[i].date).v)

\* The bucket nearest in time to trade k, the earlier one on a tie.
IsNearest(k, n) ==
    /\ ValidDate(response.data[n].date)
    /\ \A i \in DOMAIN response.data :
        ValidDate(response.data[i].date) =>
            \/ Distance(k, n) < Distance(k, i)
            \/ Distance(k, n) = Distance(k, i) /\ n <= i

\* C1: for a non-empty price series, the number of annotations over all
\* buckets of the aligned sequence equals the number of trades supplied.
C1_Completeness ==
    (Aligned /\ response.data # <<>>) => SumSlots(priceHistory) = Len(trades)

\* C2: a trade annotates at most one bucket, and that bucket is the first
\* one in chronological order that satisfies the match predicate.
C2_AtMostOneBucket ==
    Aligned =>
        \A k \in DOMAIN trades :
            \A i, j \in DOMAIN priceHistory :
                (Wrote(k, i) /\ Wrote(k, j)) => i = j

\* C3: a trade that no bucket matches is assigned to the bucket nearest in
\* time (the earlier one on a tie), so that bucket carries an annotation of
\* the trade's action.
C3_NearestFallback ==
    Aligned =>
        \A k \in DOMAIN trades : \A n \in DOMAIN priceHistory :
            ( /\ ValidDate(trades[k].timestamp)
              /\ \A i \in DOMAIN priceHistory : ~Wrote(k, i)
              /\ IsNearest(k, n) )
            => HasSlot(priceHistory[n], trades[k].action)

PricePointFields == {"open", "high", "low", "close", "volume"}

\* C4 as stated: the aligned sequence has the length and order of the price
\* series and bucket i carries every field of price point i unchanged
\* (timestamp, open, high, low, close, volume) plus only the annotations.
C4_PurelyAdditive ==
    Aligned =>
        /\ Len(priceHistory) = Len(response.data)
        /\ \A i \in DOMAIN priceHistory :
            /\ \A f \in PricePointFields :
                f \in DOMAIN priceHistory[i]
                    /\ priceHistory[i][f] = response.data[i][f]
            /\ "timestamp" \in DOMAIN priceHistory[i]

Permute(ts, p) == [i \in 1..Len(ts) |-> ts[p[i]]]

\* C5 as stated: any two orderings of the same trades yield the identical
\* aligned sequence.
C5_OrderIndependent ==
    Aligned =>
        \A p \in Permutations(DOMAIN trades) :
            Align(tz, response.data, Permute(trades, p)) = priceHistory

\* Two trades of one action that differ in price or quantity are written
\* into the same bucket.
SlotClash ==
    \E i \in DOMAIN response.data : \E k1, k2 \in DOMAIN trades :
        /\ k1 # k2
        /\ Wrote(k1, i) /\ Wrote(k2, i)
        /\ trades[k1].action = trades[k2].action
        /\ <<trades[k1].price, trades[k1].quantity>>
               # <<trades[k2].price, trades[k2].quantity>>

\* C5 amended: any two orderings of the same trades yield the identical
\* aligned sequence, provided no bucket is matched by two trades of the
\* same action that differ in price or quantity.
C5_OrderIndependentWithoutClash ==
    (Aligned /\ ~SlotClash) =>
        \A p \in Permutations(DOMAIN trades) :
            Align(tz, response.data, Permute(trades, p)) = priceHistory

C5_Witness ==
    /\ Aligned /\ ~SlotClash
    /\ Len(trades) >= 2
    /\ trades[1].action # trades[2].action
    /\ \E i \in DOMAIN priceHistory : Wrote(1, i) /\ Wrote(2, i)

\* C6 as stated: on an empty price series the call does not throw and
\* returns an empty aligned sequence together with a list of unassigned
\* trades that contains every trade supplied.
C6_EmptySeriesReturnsUnassigned ==
    (Aligned /\ response.data = <<>>) =>
        /\ logged = "nothing"
        /\ priceHistory = <<>>
        /\ returned = [unassigned |-> trades]

Malformed ==
    \/ \E k \in DOMAIN trades : ~ValidDate(trades[k].timestamp)
    \/ \E i \in DOMAIN response.data : ~ValidDate(response.data[i].date)

\* C7: when a price point or a trade has a malformed or missing timestamp
\* the alignment call fails as a whole: an error is raised and no aligned
\* sequence is stored.
C7_MalformedFailsWhole ==
    (Aligned /\ Malformed) => (logged # "nothing" /\ priceHistory = <<>>)

----------------------------------------------------------------------------
(* Properties of the chart (SpecChart) *)

ValidIndices == 0 .. Len(history) - 1

\* C8: for every series the chart renders and all valid indices i < j,
\* getX(i) < getX(j), and every getX(i) lies within the plot's horizontal
\* extent [left margin, viewBoxWidth - right margin].
C8_MonotonicProjection ==
    Rendered =>
        LET n == Len(history)
        IN  /\ \A i, j \in ValidIndices :
                i < j => RLt(GetX(impl, n, i), GetX(impl, n, j))
            /\ \A i \in ValidIndices :
                /\ RLe(Int2R(MarginLeft(impl)), GetX(impl, n, i))
                /\ RLe(GetX(impl, n, i), Int2R(ViewBoxWidth - MarginRight(impl)))

\* A pointer move was the last input and the series is the one it was
\* resolved against.
Resolved == ~pointer.none

\* C9: the index resolved from a pointer position over a non-empty series
\* is none or an integer within [0, length - 1].
C9_HoverClamp ==
    Resolved =>
        \/ hoveredIndex.none
        \/ /\ hoveredIndex.i.den = 1
           /\ hoveredIndex.i.num \in ValidIndices

C9_Witness ==
    /\ Resolved
    /\ Len(history) = MaxLen
    /\ ~hoveredIndex.none
    /\ hoveredIndex.i.num = Len(history) - 1

\* pointerX / renderedWidth * virtualWidth of the last pointer input
VirtualX == RMul(RDiv(PointerX(pointer.k, pointer.w), Int2R(pointer.w)), Int2R(ViewBoxWidth))

\* C10: the hovered index is none exactly when pointerX / renderedWidth *
\* virtualWidth lies outside the plot's horizontal extent, and the same
\* fraction of any other rendered width resolves to the same result.
C10_RescaledHover ==
    Resolved =>
        /\ hoveredIndex.none <=>
              \/ RLt(VirtualX, Int2R(MarginLeft(impl)))
              \/ RLt(Int2R(ViewBoxWidth - MarginRight(impl)), VirtualX)
        /\ \A w \in RenderedWidths(impl) :
              GetIndexFromPosition(impl, Len(history), PointerX(pointer.k, w), Int2R(w))
                  = hoveredIndex

C10_Witness ==
    /\ Resolved
    /\ impl = "component"
    /\ pointer.w # ViewBoxWidth
    /\ ~hoveredIndex.none
    /\ hoveredIndex.i.num > 0

\* Idle, or Hovering(i) for an integer i.
HoverState(h) == h.none \/ (h.i.den = 1 /\ h.i.num \in 0 .. MaxLen)

\* What the position p of a pointer input resolves to over the series h.
ResolvedAt(h, p) ==
    GetIndexFromPosition(impl, Len(h), PointerX(p.k, p.w), Int2R(p.w))

\* C11 as stated: the hover state of a mounted chart is Idle or
\* Hovering(index); a pointer-move or touch-move that resolves to an index
\* leads to Hovering(that index); a pointer-move outside the plot, a
\* pointer-leave or a touch-end leads to Idle; every other event, a
\* touch-move outside the plot among them, leaves the state as it is.
C11_HoverTransitionsAsListed ==
    [][ /\ HoverState(hoveredIndex')
        /\ CASE event' = "mousemove" -> hoveredIndex' = ResolvedAt(history', pointer')
              [] event' = "touchmove" ->
                    hoveredIndex' = IF ResolvedAt(history', pointer').none
                                    THEN hoveredIndex
                                    ELSE ResolvedAt(history', pointer')
              [] event' \in {"mouseleave", "touchend", "mount"} ->
                    hoveredIndex' = NoIndex
              [] OTHER -> hoveredIndex' = hoveredIndex ]_vars

\* C11 amended: the hover state of a mounted chart is Idle or
\* Hovering(index); a pointer-move or touch-move that resolves to an index
\* leads to Hovering(that index); a pointer-move or touch-move outside the
\* plot, a pointer-leave or a touch-end leads to Idle; every other event (a
\* touch-move carrying no touches, a render with another series) leaves the
\* state as it is.
C11_HoverTransitions ==
    [][ /\ HoverState(hoveredIndex')
        /\ CASE event' \in {"mousemove", "touchmove"} ->
                    hoveredIndex' = ResolvedAt(history', pointer')
              [] event' \in {"mouseleave", "touchend", "mount"} ->
                    hoveredIndex' = NoIndex
              [] OTHER -> hoveredIndex' = hoveredIndex ]_vars

\* A touch-move carrying no touches was handled while hovering.
C11_Witness ==
    /\ event = "touchmove without touches"
    /\ ~hoveredIndex.none

\* C12: the trend of a rendered series is UP (green) exactly when its last
\* close is at or above its first close and DOWN (red) otherwise; a series
\* whose first and last close are equal is UP.
C12_Trend ==
    Rendered =>
        LET first == history[1]
            last  == history[Len(history)]
        IN  /\ last > first => Color(history) = "#16a34a"
            /\ last = first => Color(history) = "#16a34a"
            /\ last < first => Color(history) = "#dc2626"

\* A series of several points whose first and last close are equal, with
\* another close in between.
C12_Witness ==
    /\ Rendered
    /\ Len(history) >= 3
    /\ history[1] = history[Len(history)]
    /\ history[2] # history[1]
    /\ IsUp(history)

\* C13: an empty series and a series of one point are both not rendered, so
\* that the index-to-x mapping of a rendered series never divides by
\* length - 1 = 0.
C13_DegenerateSeriesNotRendered ==
    /\ Len(history) <= 1 => ~Rendered
    /\ Rendered => \A i \in ValidIndices : ~IsNaN(GetX(impl, Len(history), i))

\* The Y labels i and i + 1 are one step apart in price and in y.
YStep(prices, i) == RSub(YTickPrice(prices, i + 1), YTickPrice(prices, i))

\* C18 as stated: the chart has 5 Y-ticks, evenly spaced across
\* [min, max], the first at min and the last at max, and for a flat series
\* (min = max) the range is 1 so that no tick is NaN or infinite.
C18_FiveYTicks ==
    Rendered =>
        LET last == CHOOSE i \in YTickIndices : \A j \in YTickIndices : j <= i
        IN  /\ Cardinality(YTickIndices) = 5
            /\ YTickPrice(history, 0) = Int2R(MinPrice(history))
            /\ RSub(YTickPrice(history, last), Int2R(MaxPrice(history))).num = 0
            /\ \A i \in YTickIndices :
                  IsFinite(YTickPrice(history, i)) /\ IsFinite(YTickY(i))

\* a = b for finite fractions
REq(a, b) == IsFinite(a) /\ IsFinite(b) /\ a.num * b.den = b.num * a.den

\* C18 amended: the chart has yTicks + 1 = 6 Y-ticks, 5 equal steps apart
\* in price and in height, the first at min on the bottom of the plot and
\* the last at min + range on its top, where range is max - min, or 1 for
\* a flat series (min = max): the last tick is max unless the series is
\* flat, and then it is min + 1; no tick is NaN or infinite.
C18_SixYTicks ==
    Rendered =>
        LET min == MinPrice(history)
            max == MaxPrice(history)
        IN  /\ YTickIndices = 0 .. 5
            /\ \A i \in YTickIndices :
                  IsFinite(YTickPrice(history, i)) /\ IsFinite(YTickY(i))
            /\ REq(YTickPrice(history, 0), Int2R(min))
            /\ REq(YTickPrice(history, 5),
                   Int2R(IF min = max THEN min + 1 ELSE max))
            /\ REq(YTickY(0), Int2R(MarginTop + ChartHeight))
            /\ REq(YTickY(5), Int2R(MarginTop))
            /\ \A i \in 0 .. 4 :
                  /\ REq(YStep(history, i), YStep(history, 0))
                  /\ REq(RSub(YTickY(i), YTickY(i + 1)),
                         RDiv(Int2R(ChartHeight), Int2R(5)))
            /\ REq(GetY(history, min), YTickY(0))
            /\ REq(GetY(history, max), IF min = max THEN YTickY(0) ELSE YTickY(5))

\* A flat series of several points is rendered.
C18_Witness ==
    /\ Rendered
    /\ Len(history) >= 2
    /\ MinPrice(history) = MaxPrice(history)

\* C19: the chart has min(5, length) X-ticks; the index of every tick is an
\* integer within [0, length - 1], the indices do not decrease from one
\* tick to the next, the first is 0 and the last is length - 1.
C19_XTicks ==
    Rendered =>
        LET n == Len(history)
            idx(i) == XTickIdx(n, i)
        IN  /\ Cardinality(XTickIndices(n)) = (IF n < 5 THEN n ELSE 5)
            /\ \A i \in XTickIndices(n) :
                  /\ idx(i).den = 1
                  /\ idx(i).num \in ValidIndices
            /\ \A i, j \in XTickIndices(n) : i <= j => RLe(idx(i), idx(j))
            /\ idx(0) = Int2R(0)
            /\ idx(XTicks(n) - 1) = Int2R(n - 1)

----------------------------------------------------------------------------
(* Matching policies and annotation slots (SpecAlign) *)

\* Trade k and bucket i fall on the same local calendar day.
SameLocalDay(k, i) ==
    /\ ValidDate(trades[k].timestamp)
    /\ ValidDate(response.data[i].date)
    /\ LocalDay(tz, DateGetTime(trades[k].timestamp).v)
          = LocalDay(tz, DateGetTime(response.data[i].date).v)

\* C14: under the CalendarDay policy a trade matches a bucket exactly when
\* both fall on the same local calendar day: a bucket carries an annotation
\* of an action only from a trade of its own day, never from a trade of an
\* adjacent day, and every trade annotates the buckets of its day.
C14_CalendarDay ==
    Aligned =>
        /\ \A i \in DOMAIN priceHistory : \A a \in {"BUY", "SELL"} :
              HasSlot(priceHistory[i], a) =>
                  \E k \in DOMAIN trades :
                      trades[k].action = a /\ SameLocalDay(k, i)
        /\ \A k \in DOMAIN trades : \A i \in DOMAIN priceHistory :
              SameLocalDay(k, i) => HasSlot(priceHistory[i], trades[k].action)

\* Hour of the local day of instant t.
LocalHour(zone, t) ==
    ((t + (IF zone = "DST" /\ t >= DstAt THEN MsPerHour ELSE 0)) % MsPerDay)
        \div MsPerHour

SameLocalHour(k, i) ==
    /\ SameLocalDay(k, i)
    /\ LocalHour(tz, DateGetTime(trades[k].timestamp).v)
          = LocalHour(tz, DateGetTime(response.data[i].date).v)

\* The buckets are those of several hours of one local day.
HourlyBucketsOfOneDay ==
    /\ Len(response.data) >= 2
    /\ \A i, j \in DOMAIN response.data :
          /\ ValidDate(response.data[i].date)
          /\ LocalDay(tz, DateGetTime(response.data[i].date).v)
                = LocalDay(tz, DateGetTime(response.data[j].date).v)

\* C15: under the SameHour policy a trade matches a bucket only when day
\* and hour are equal: with hourly buckets on one day a buy and a sell of
\* the same hour both land in the bucket of that hour and no other bucket
\* of that day is annotated.
C15_SameHour ==
    (Aligned /\ HourlyBucketsOfOneDay) =>
        /\ \A i \in DOMAIN priceHistory : \A a \in {"BUY", "SELL"} :
              HasSlot(priceHistory[i], a) =>
                  \E k \in DOMAIN trades :
                      trades[k].action = a /\ SameLocalHour(k, i)
        /\ \A k \in DOMAIN trades : \A i \in DOMAIN priceHistory :
              SameLocalHour(k, i) => HasSlot(priceHistory[i], trades[k].action)

\* The trades of action a that forEach writes into bucket i.
WritersOf(i, a) == {k \in DOMAIN trades : trades[k].action = a /\ Wrote(k, i)}

Last(ks) == CHOOSE k \in ks : \A j \in ks : j <= k

SlotOf(dp, a) ==
    IF a = "BUY" THEN <<dp.buyPrice, dp.buyQuantity>>
    ELSE <<dp.sellPrice, dp.sellQuantity>>

\* C16: a bucket holds at most one buy and one sell annotation; of several
\* matching trades of one action the slot carries the price and quantity of
\* the one processed last in input order, and the trades of the other
\* action do not touch it.
C16_LastWins ==
    Aligned =>
        \A i \in DOMAIN priceHistory : \A a \in {"BUY", "SELL"} :
            IF WritersOf(i, a) = {}
            THEN ~HasSlot(priceHistory[i], a)
            ELSE /\ HasSlot(priceHistory[i], a)
                 /\ SlotOf(priceHistory[i], a)
                      = <<trades[Last(WritersOf(i, a))].price,
                          trades[Last(WritersOf(i, a))].quantity>>

\* Two trades of one action with different prices were written into one
\* bucket.
C16_Witness ==
    /\ Aligned
    /\ \E i \in DOMAIN priceHistory : \E a \in {"BUY", "SELL"} :
          /\ Cardinality(WritersOf(i, a)) >= 2
          /\ \E k \in WritersOf(i, a) :
                trades[k].price # trades[Last(WritersOf(i, a))].price

----------------------------------------------------------------------------
(* Re-runs of the alignment on the portfolio page (SpecPortfolio) *)

\* The chart is on the screen: a portfolio is shown, no chart is loading and
\* the sequence is not empty.
ChartDisplayed == ~portfolio.null /\ ~loadingChart /\ priceHistory # <<>>

\* C17: the alignment is not incremental: once the portfolio (the trade
\* set) or the chart symbol (the price series) has changed, the sequence on
\* the screen is exactly the full alignment of the trades of the portfolio
\* shown with the series of a symbol; no bucket or annotation of an earlier
\* run remains.
C17_DisplayedIsFullRerun ==
    ChartDisplayed =>
        \E sym \in {"AAPL", "MSFT"} :
            priceHistory = Align(tz, SeriesOf(sym), portfolio.trades)

----------------------------------------------------------------------------
(* The cache of usePriceHistory (SpecCache) *)

\* C20: the cache is keyed by (symbol, timeframe): a successful
\* fetchPriceHistory(symbol, timeframe) stores the fetched series as the
\* whole entry of exactly that pair and leaves the entry of every other
\* pair as it was, also while fetches of other pairs are in flight; a
\* failed fetch leaves the cache unchanged.
C20_CacheKeyedByPair ==
    [][ \A i \in DOMAIN fetches :
          /\ \A data \in CacheSeries :
                FetchOk(i, data) =>
                    \A symbol \in CacheSymbols : \A timeframe \in Timeframes :
                        GetPriceHistoryForStock(priceHistoryByKey', symbol, timeframe)
                          = IF /\ symbol = fetches[i].symbol
                               /\ timeframe = fetches[i].timeframe
                            THEN Defined(data)
                            ELSE GetPriceHistoryForStock(priceHistoryByKey,
                                                         symbol, timeframe)
          /\ FetchFails(i) => priceHistoryByKey' = priceHistoryByKey ]_vars

\* Two pairs have their series in the cache, an empty one and one of a
\* point, while another fetch is in flight.
C20_Witness ==
    /\ \E s1, s2 \in CacheSymbols : \E t1, t2 \in Timeframes :
          /\ <<s1, t1>> # <<s2, t2>>
          /\ GetPriceHistoryForStock(priceHistoryByKey, s1, t1) = Defined(<<>>)
          /\ GetPriceHistoryForStock(priceHistoryByKey, s2, t2)
                = Defined(<<PriceItem("D0T10")>>)
    /\ Len(fetches) = 1

\* C21: once a series of (symbol, timeframe) is in the cache, a call of
\* fetchPriceHistory for that pair returns early: it issues no request and
\* changes neither loadingSymbol nor the cache.
C21_CachedCallReturnsEarly ==
    [][ \A symbol \in CacheSymbols : \A timeframe \in Timeframes :
          ( /\ CallCached(symbol, timeframe)
            /\ ~GetPriceHistoryForStock(priceHistoryByKey, symbol,
                                         timeframe).undefined )
          => UNCHANGED <<fetches, loadingSymbol, priceHistoryByKey>> ]_vars

\* The requests in flight are of different symbols.
DifferentSymbolsInFlight(inFlight) ==
    \A i, j \in DOMAIN inFlight :
        i # j => inFlight[i].symbol # inFlight[j].symbol

\* C27: with overlapping calls of fetchPriceHistory for different symbols,
\* when one of the requests completes loadingSymbol is still not null if
\* another request is in flight, and it is null if none is.
C27_LoadingWhileInFlight ==
    [][ ( /\ DifferentSymbolsInFlight(fetches)
          /\ Len(fetches') < Len(fetches) )
        => /\ Len(fetches') > 0 => ~loadingSymbol'.null
           /\ Len(fetches') = 0 => loadingSymbol'.null ]_vars

\* C26: after any sequence of pointer and touch events and replacements of
\* the history prop, by a shorter series too, the hovered index is none or
\* a valid index of the series now rendered, so that the crosshair and the
\* tooltip read a point of that series.
C26_HoverWithinCurrentSeries ==
    Len(history) > 0 =>
        \/ hoveredIndex.none
        \/ /\ hoveredIndex.i.den = 1
           /\ hoveredIndex.i.num \in ValidIndices

----------------------------------------------------------------------------
(* loadAndVerifyBots, startBot and stopBot (SpecTrading) *)

\* The saved bots kept by a verification, from those the storage entry
\* held and the answers of their portfolio requests.
RECURSIVE KeptFrom(_, _, _)
KeptFrom(bots, answers, i) ==
    IF i > Len(bots) THEN <<>>
    ELSE (IF answers[i] = "ok" THEN <<bots[i]>> ELSE <<>>)
            \o KeptFrom(bots, answers, i + 1)

HoldsNoBot(entry) == entry.null \/ entry.json = <<>>

\* A run that found no active bots leaves the verified saved bots: `run`
\* is the run before its last answer, `last` that answer.
VerifiedWritten(run, last, entry, entryAfter, botsAfter) ==
    IF run.pc = "active"
    THEN \* no saved bot to verify
         /\ HoldsNoBot(entry)
         /\ botsAfter = <<>>
         /\ HoldsNoBot(entryAfter)
    ELSE LET kept == KeptFrom(run.entry.json, Append(run.answers, last), 1)
         IN  /\ botsAfter = kept
             /\ entryAfter = [null |-> FALSE, json |-> kept]

\* Run i of loadAndVerifyBots, told of no active bot, ends in this step;
\* `last` is the answer of the portfolio request it asked last.
RunEnds(i, last) ==
    /\ Len(loads') < Len(loads)
    /\ IF last = "none" THEN ActiveBotsNone(i) ELSE PortfolioCheck(i, last)

\* C22 as stated: a loadAndVerifyBots that is told of no active bot keeps
\* the saved bots whose portfolio request answered ok, in saved order, in
\* activeBots and in sessionStorage; one that is told of active bots puts
\* exactly the reported list in both.
C22_ReportedListKept ==
    [][ \A i \in DOMAIN loads :
          /\ \A last \in {"none", "ok", "not ok"} :
                RunEnds(i, last) =>
                    VerifiedWritten(loads[i], last, storedBots, storedBots',
                                    activeBots')
          /\ \A reported \in BackendLists :
                ActiveBotsList(i, reported) =>
                    /\ activeBots' = reported
                    /\ storedBots' = [null |-> FALSE, json |-> reported]
      ]_vars

\* What the page lists for a reported bot: its id, the status 'started',
\* its config or else the default config for its symbol and strategy.
ListedFor(listed, bot) ==
    /\ DOMAIN listed = {"bot_id", "status", "config"}
    /\ listed.bot_id = bot.bot_id
    /\ listed.status = "started"
    /\ IF "config" \in DOMAIN bot /\ bot.config # [null |-> TRUE]
       THEN listed.config = bot.config
       ELSE /\ DOMAIN listed.config =
                   {"symbol", "strategy", "capital", "entry_threshold",
                    "exit_threshold", "stop_loss"}
            /\ listed.config.symbol = bot.symbol
            /\ listed.config.strategy = bot.strategy
            /\ listed.config.capital = 10000
            /\ listed.config.entry_threshold = "0.02"
            /\ listed.config.exit_threshold = "0.03"
            /\ listed.config.stop_loss = "-0.05"

\* C22, amended: as above, but a reported list is put in both after each
\* bot is reduced to its id, the status 'started' and its config (the
\* default config for its symbol and strategy when it reports none).
C22_ReportedListFormatted ==
    [][ \A i \in DOMAIN loads :
          /\ \A last \in {"none", "ok", "not ok"} :
                RunEnds(i, last) =>
                    VerifiedWritten(loads[i], last, storedBots, storedBots',
                                    activeBots')
          /\ \A reported \in BackendLists :
                ActiveBotsList(i, reported) =>
                    /\ Len(activeBots') = Len(reported)
                    /\ \A k \in DOMAIN activeBots' :
                           ListedFor(activeBots'[k], reported[k])
                    /\ storedBots' = [null |-> FALSE, json |-> activeBots']
      ]_vars

\* A run has stored the list formatted from two reported bots, the first
\* with the default config for its symbol.
C22_Witness ==
    /\ finished.pc = "done"
    /\ finished.first = "list"
    /\ Len(activeBots) = 2
    /\ activeBots[1].status = "started"
    /\ activeBots[1].config.symbol = "MSFT"
    /\ storedBots = [null |-> FALSE, json |-> activeBots]

\* C23: when the request for the active bots rejects, sessionStorage is
\* left as it is and activeBots becomes the list saved in it.
C23_CachedBotsShown ==
    [][ \A i \in DOMAIN loads :
          ActiveBotsThrows(i) =>
              /\ storedBots' = storedBots
              /\ ~storedBots.null => activeBots' = storedBots.json
      ]_vars

\* A run whose request rejected shows the two saved bots.
C23_Witness ==
    /\ finished.pc = "done"
    /\ finished.first = "throws"
    /\ ~storedBots.null
    /\ Len(storedBots.json) = 2
    /\ activeBots = storedBots.json

\* A stopBot answered with a failure: it leaves the list and shows an error.
StopFailed(before, after, messageAfter) ==
    /\ Len(after) < Len(before)
    /\ ~messageAfter.null
    /\ messageAfter.type = "error"

\* No bot whose stop succeeded is listed or saved.
StoppedGone(stopped, bots, entry) ==
    \A b \in stopped :
        /\ b \notin Ids(bots)
        /\ entry.null \/ b \notin Ids(entry.json)

\* C30: a stopBot that fails leaves activeBots and sessionStorage as they
\* are, and once no stopBot is in flight no bot whose stop succeeded is in
\* activeBots or in sessionStorage.
C30_OverlappingStops ==
    [][ /\ StopFailed(stops, stops', tradingMessage') =>
              UNCHANGED <<activeBots, storedBots>>
        /\ stops' = <<>> => StoppedGone(stoppedOk', activeBots', storedBots')
      ]_vars

----------------------------------------------------------------------------
(* Stock fetches and the auto-refresh timer of useStocks (SpecStocks) *)

\* C28: once no call of fetchTopStocks is in flight and none has failed,
\* the stock list is the answer for the selected timeframe.
C28_CurrentTimeframeShown ==
    (stockFetches = <<>> /\ ~stockFailed) =>
        stocks = ServerStocks(currentTimeframe)

\* C29: at most one auto-refresh timer runs, none runs while
\* isAutoRefreshing is false, and a running timer fetches with the
\* selected timeframe.
C29_OneCurrentTimer ==
    /\ Cardinality(intervals) <= 1
    /\ ~isAutoRefreshing => intervals = {}
    /\ \A t \in intervals : t.timeframe = currentTimeframe

\* Auto-refresh is on and its timer has been replaced for a new timeframe.
C29_Witness ==
    /\ isAutoRefreshing
    /\ currentTimeframe = "1d"
    /\ intervals = {[id |-> intervalRef.id, timeframe |-> "1d"]}
    /\ intervalRef.id > 1

----------------------------------------------------------------------------
(* Alerts of useNotifications (SpecNotify) *)

Occurrences(seq, x) == Cardinality({ i \in DOMAIN seq : seq[i] = x })

\* C24: at a check with notifications enabled, sendNotification is called
\* for a stock exactly when its score is at least 85, its sentiment is
\* positive, its trend is BULLISH and the trend recorded for its symbol
\* before the check is not BULLISH; it is called at most once, never for a
\* stock recorded as BULLISH, and the record of every checked stock becomes
\* its current trend, score and sentiment.
C24_AlertOnTurnBullish ==
    [][ \A list \in StockLists :
          (enabledSeen /\ notificationsEnabled /\ CheckAlertConditions(list)) =>
          \A i \in DOMAIN list :
              LET stock == list[i]
                  before == previousStocksRef[stock.symbol]
                  told == "news_sentiment" \in DOMAIN stock
                             /\ stock.news_sentiment # ""
                  positive == told /\ stock.news_sentiment = "positive"
              IN  /\ Occurrences(sent', stock.symbol) =
                         IF /\ stock.potential_score >= 85
                            /\ positive
                            /\ stock.trend = "BULLISH"
                            /\ ~before.undefined
                            /\ before.value.trend # "BULLISH"
                         THEN 1 ELSE 0
                  /\ ( /\ ~before.undefined
                       /\ before.value.trend = "BULLISH" )
                         => Occurrences(sent', stock.symbol) = 0
                  /\ ~previousStocksRef'[stock.symbol].undefined
                  /\ previousStocksRef'[stock.symbol].value =
                         [trend |-> stock.trend,
                          score |-> stock.potential_score,
                          sentiment |-> IF told THEN stock.news_sentiment
                                        ELSE "neutral"]
      ]_vars

\* A check has sent a notification for AAPL, which turned BULLISH, and none
\* for MSFT, which stays BULLISH.
C24_Witness ==
    /\ notificationsEnabled
    /\ enabledSeen
    /\ sent = <<"AAPL">>
    /\ previousStocksRef["AAPL"] =
           Defined([trend |-> "BULLISH", score |-> 85,
                    sentiment |-> "positive"])
    /\ previousStocksRef["MSFT"] =
           Defined([trend |-> "BULLISH", score |-> 90,
                    sentiment |-> "positive"])

----------------------------------------------------------------------------
(* The base URL of api-config (SpecConfig) *)

\* C25: the default base URL is the environment variable when it is set,
\* else the localStorage entry when it is set, else http://localhost:8000.
C25_DocumentedPriority ==
    GetDefaultApiUrl(hasWindow, storedUrl, envUrl) =
        IF EnvSet(envUrl) THEN envUrl.value
        ELSE IF StoredSet(hasWindow, storedUrl) THEN storedUrl.url
        ELSE <<"http://localhost:8000">>

====
